---- MODULE Spec2Model ----
(***************************************************************************)
(* A model of the alert manager of the RS Systems health monitor           *)
(* (src/src/alerts.py) and of the tool handlers of src/src/server.py that  *)
(* drive it.                                                                *)
(*                                                                          *)
(* Alerts are Python objects: the active dictionary and the history deque   *)
(* both hold references to the same object.  The model keeps the objects in *)
(* the sequence `alerts` (an alert's id is its index, standing for the      *)
(* fresh uuid4 string) and lets active_alerts and alert_history hold ids.   *)
(* Time is datetime.now() in minutes.  A coroutine runs atomically up to    *)
(* its next real suspension point: process_monitor_results suspends only in *)
(* asyncio.gather of _send_notifications.                                   *)
(***************************************************************************)
EXTENDS Integers, Sequences, FiniteSets, TLC

\* ------------------------------------------------------------------ bounds
\* alerts created in one behaviour of Spec
MaxAlerts == 2
\* the clock runs over 0..MaxTime
MaxTime == 1
\* config.cooldown_minutes ranges over 0..MaxCooldown
MaxCooldown == 1
\* the same three bounds of SpecGate
GateAlerts == 3
GateTime == 2
GateCooldown == 2
\* alerts created in one behaviour of SpecHistory (more than the capacity)
MaxHistoryAlerts == 1002
\* unfinished tasks at a time in SpecControl
ControlTasks == 2
\* SpecLoop: unfinished tasks at a time, alerts created in a behaviour
LoopTasks == 2
LoopAlerts == 1
\* alerts created in a behaviour of SpecOrch, of SpecTools
OrchAlerts == 1
ToolAlerts == 1
\* SpecBadTick: unfinished tasks at a time, alerts created in a behaviour
BadTickTasks == 2
BadTickAlerts == 1

\* ------------------------------------------------------- program constants
\* deque(maxlen=1000)
HistoryMaxLen == 1000

VARIABLES
    config,            \* settings.alerts: enabled, cooldown_minutes, channels
    clock,             \* datetime.now(), in minutes
    alerts,            \* the Alert objects ever constructed, by id
    active_alerts,     \* AlertManager.active_alerts: ids in insertion order
    alert_history,     \* AlertManager.alert_history: ids, oldest first
    cooldown_tracker,  \* AlertManager.cooldown_tracker: key -> datetime
    pc,                \* where the process_monitor_results call stands
    results,           \* argument of the current (or last) call
    todo,              \* create_alert calls the current call has still to make
    cur,               \* id of the alert whose notifications are awaited
    pending,           \* channel tasks of the gather not yet finished
    inflight,          \* those of them that have begun their delivery
    alerts_created,    \* the call's alerts_created list (its return value)
    notif,             \* per alert: gate verdict, delivery attempts, receipts
    last,              \* the tool call just answered: its argument and answer
    is_monitoring,     \* RSHealthMonitorServer.is_monitoring
    monitoring_task,   \* RSHealthMonitorServer.monitoring_task: None or a task id
    tasks              \* the asyncio tasks of the server's flows, by id

\* the orchestrator's part of the state
orch == <<is_monitoring, monitoring_task, tasks>>

vars == <<config, clock, alerts, active_alerts, alert_history, cooldown_tracker,
          pc, results, todo, cur, pending, inflight, alerts_created, notif, last, orch>>

\* ------------------------------------------------------------------ values
\* Optional[float]: <<>> is None, <<v>> is the number v
None == <<>>
Some(v) == <<v>>

Channels == {"slack", "email"}

\* what one delivery can do: Slack answers 200, answers another status, or
\* the client raises; SMTP sends or raises
Outcomes(ch) == IF ch = "slack" THEN {"ok", "non200", "raise"} ELSE {"ok", "raise"}

\* settings.alerts as AlertManager reads it
Configs(maxcd) ==
    [enabled : BOOLEAN, cooldown_minutes : 0..maxcd,
     slack_client : BOOLEAN, email_enabled : BOOLEAN]

\* --------------------------------------------------------- monitor results
\* An issue is a plain string (kind "str", its text in `text`) or a dict
\* (kind "dict") holding the keys in `has`.
StrIssue(s) ==
    [kind |-> "str", has |-> {}, text |-> s, type |-> "", severity |-> "",
     message |-> "", value |-> None, threshold |-> None]

DictIssue(keys, t, sev, msg, v, th) ==
    [kind |-> "dict", has |-> keys, text |-> "", type |-> t, severity |-> sev,
     message |-> msg, value |-> v, threshold |-> th]

AllKeys == {"type", "severity", "message", "value", "threshold"}

\* queue.py check_thresholds: the stuck_repairs issue of the example scenario
StuckRepairs == DictIssue(AllKeys, "stuck_repairs", "warning", "5 stuck", Some(5), Some(3))
\* queue.py check_thresholds: low_completion_rate carries no threshold
LowCompletion ==
    DictIssue(AllKeys \ {"threshold"}, "low_completion_rate", "critical",
              "completion rate low", Some(40), None)
SlowQuery == StrIssue("slow query")
\* an issue dict whose "message" is present and None (`nulls` names the keys
\* that hold None)
NullMessage ==
    [kind |-> "dict", has |-> {"type", "message"}, nulls |-> {"message"}, text |-> "",
     type |-> "slow_queries", severity |-> "", message |-> "", value |-> None,
     threshold |-> None]

\* A monitor result: a dict holding the keys in `has`, or something else;
\* `error` is the str(e) a failed monitor stores under "error"
DictResult(keys, hi, iss) ==
    [kind |-> "dict", has |-> keys, has_issues |-> hi, issues |-> iss,
     error |-> "monitoring failed"]
Issues(iss) == DictResult({"has_issues", "issues"}, TRUE, iss)
Healthy == DictResult({"has_issues", "issues"}, FALSE, <<>>)
\* QueueMonitor.monitor's except branch: {"error": ..., "timestamp": ...}
ErrorOnly == DictResult({"error"}, FALSE, <<>>)

Components == <<"database", "api", "queue", "storage", "activity">>

\* the result maps handed to process_monitor_results
ResultMaps ==
    { [c \in {"queue"} |-> Issues(<<StuckRepairs>>)],
      [c \in {"queue"} |-> Issues(<<StuckRepairs, LowCompletion>>)],
      [c \in {"database", "queue"} |->
          IF c = "database" THEN Issues(<<SlowQuery>>) ELSE ErrorOnly],
      [c \in {"api", "storage"} |->
          IF c = "api" THEN Issues(<<StuckRepairs>>) ELSE Healthy] }

\* ----------------------------------------------------------- alert manager
\* dict.get(k, default)
get(d, k, default) == IF k \in d.has THEN d[k] ELSE default

\* process_monitor_results.safe_get: default when obj is not a dict
safe_get(obj, k, default) == IF obj.kind = "dict" THEN get(obj, k, default) ELSE default

\* str(value) of an Optional number
py_num(v) == IF v = None THEN "None" ELSE ToString(v[1])

\* one "'key': value" item of the repr of an issue dict
py_item(issue, k) ==
    "'" \o k \o "': " \o
    (IF k \in {"value", "threshold"} THEN py_num(issue[k]) ELSE "'" \o issue[k] \o "'")

RECURSIVE py_items(_, _)
py_items(issue, ks) ==
    IF ks = <<>> THEN ""
    ELSE IF Head(ks) \notin issue.has THEN py_items(issue, Tail(ks))
    ELSE LET rest == py_items(issue, Tail(ks)) IN
         py_item(issue, Head(ks)) \o (IF rest = "" THEN "" ELSE ", " \o rest)

\* str(issue): the string itself, or the repr of the dict
py_str(issue) ==
    IF issue.kind = "str" THEN issue.text
    ELSE "{" \o py_items(issue, <<"type", "severity", "message", "value", "threshold">>) \o "}"

\* append on a deque without maxlen: nothing is ever dropped
deque_append_unbounded(d, x, maxlen) == Append(d, x)

\* deque.append on a deque(maxlen): a full deque drops its oldest element
deque_append(d, x, maxlen) ==
    IF Len(d) >= maxlen THEN Append(Tail(d), x) ELSE Append(d, x)

\* f"{component}:{alert_type}"
cooldown_key(component, alert_type) == component \o ":" \o alert_type

\* _should_alert without its cooldown test: every alert of an enabled
\* configuration passes
should_alert_no_cooldown(cfg, tracker, component, alert_type, now) ==
    IF ~cfg.enabled THEN [ok |-> FALSE, tracker |-> tracker]
    ELSE [ok |-> TRUE, tracker |-> (cooldown_key(component, alert_type) :> now) @@ tracker]

\* _should_alert comparing now <= cooldown_end: the end of the window is
\* still inside it
should_alert_inclusive(cfg, tracker, component, alert_type, now) ==
    LET key == cooldown_key(component, alert_type) IN
    IF ~cfg.enabled THEN [ok |-> FALSE, tracker |-> tracker]
    ELSE IF key \in DOMAIN tracker /\ now <= tracker[key] + cfg.cooldown_minutes
    THEN [ok |-> FALSE, tracker |-> tracker]
    ELSE [ok |-> TRUE, tracker |-> (key :> now) @@ tracker]

\* _should_alert recording now before the cooldown test: a refused attempt
\* restarts the window
should_alert_stamp_attempt(cfg, tracker, component, alert_type, now) ==
    LET key == cooldown_key(component, alert_type) IN
    IF ~cfg.enabled THEN [ok |-> FALSE, tracker |-> tracker]
    ELSE IF key \in DOMAIN tracker /\ now < tracker[key] + cfg.cooldown_minutes
    THEN [ok |-> FALSE, tracker |-> (key :> now) @@ tracker]
    ELSE [ok |-> TRUE, tracker |-> (key :> now) @@ tracker]

\* _should_alert without the test of config.enabled
should_alert_ignore_enabled(cfg, tracker, component, alert_type, now) ==
    LET key == cooldown_key(component, alert_type) IN
    IF key \in DOMAIN tracker /\ now < tracker[key] + cfg.cooldown_minutes
    THEN [ok |-> FALSE, tracker |-> tracker]
    ELSE [ok |-> TRUE, tracker |-> (key :> now) @@ tracker]

\* AlertManager._should_alert: the verdict and the tracker it leaves
_should_alert(cfg, tracker, component, alert_type, now) ==
    LET key == cooldown_key(component, alert_type) IN
    IF ~cfg.enabled THEN [ok |-> FALSE, tracker |-> tracker]
    ELSE IF key \in DOMAIN tracker /\ now < tracker[key] + cfg.cooldown_minutes
    THEN [ok |-> FALSE, tracker |-> tracker]
    ELSE [ok |-> TRUE, tracker |-> (key :> now) @@ tracker]

\* Alert(id=..., ...): created_at defaults to now, unresolved
Alert(id, call, now) ==
    [id |-> id, severity |-> call.severity, component |-> call.component,
     title |-> call.title, message |-> call.message,
     threshold_value |-> call.threshold_value, actual_value |-> call.actual_value,
     created_at |-> now, resolved_at |-> None, is_resolved |-> FALSE,
     metadata |-> call.metadata]

\* _send_notifications without its tests of slack_client and email_enabled:
\* both channels get a task
send_notifications_every_channel(cfg) == Channels

\* AlertManager._send_notifications: the channel tasks handed to gather
_send_notifications(cfg) ==
    (IF cfg.slack_client THEN {"slack"} ELSE {})
        \cup (IF cfg.email_enabled THEN {"email"} ELSE {})

\* what is recorded of an alert's notification: the gate's verdict and the
\* time it read, the delivery attempts per channel, the channels that got it
NoNotif == [passed |-> FALSE, at |-> 0, tried |-> [ch \in Channels |-> 0], got |-> {}]

\* create_alert whose gate reads the cooldown map but whose record of the
\* fire is lost
create_alert_record_lost(M, cfg, now, call) ==
    LET id == Len(M.alerts) + 1
        gate == _should_alert(cfg, M.cooldown_tracker, call.component, call.title, now)
    IN  [M |-> [alerts |-> Append(M.alerts, Alert(id, call, now)),
                active_alerts |-> Append(M.active_alerts, id),
                alert_history |-> deque_append(M.alert_history, id, HistoryMaxLen),
                cooldown_tracker |-> M.cooldown_tracker,
                notif |-> Append(M.notif, [NoNotif EXCEPT !.passed = gate.ok, !.at = now])],
         id |-> id,
         tasks |-> IF gate.ok THEN _send_notifications(cfg) ELSE {}]

\* create_alert that keeps one active alert per (component, title): an alert
\* whose key has an active alert is not added to the active set
create_alert_one_per_key(M, cfg, now, call) ==
    LET id == Len(M.alerts) + 1
        gate == _should_alert(cfg, M.cooldown_tracker, call.component, call.title, now)
        dup == \E i \in 1..Len(M.active_alerts) :
                  /\ M.alerts[M.active_alerts[i]].component = call.component
                  /\ M.alerts[M.active_alerts[i]].title = call.title
    IN  [M |-> [alerts |-> Append(M.alerts, Alert(id, call, now)),
                active_alerts |-> IF dup THEN M.active_alerts ELSE Append(M.active_alerts, id),
                alert_history |-> deque_append(M.alert_history, id, HistoryMaxLen),
                cooldown_tracker |-> gate.tracker,
                notif |-> Append(M.notif, [NoNotif EXCEPT !.passed = gate.ok, !.at = now])],
         id |-> id,
         tasks |-> IF gate.ok THEN _send_notifications(cfg) ELSE {}]

\* AlertManager.create_alert up to its await: M is the manager's state.
\* Yields the state left, the new alert's id, and the channel tasks awaited
\* (none when the gate refuses or no channel is configured).
create_alert(M, cfg, now, call) ==
    LET id == Len(M.alerts) + 1
        gate == _should_alert(cfg, M.cooldown_tracker, call.component, call.title, now)
    IN  [M |-> [alerts |-> Append(M.alerts, Alert(id, call, now)),
                active_alerts |-> Append(M.active_alerts, id),
                alert_history |-> deque_append(M.alert_history, id, HistoryMaxLen),
                cooldown_tracker |-> gate.tracker,
                notif |-> Append(M.notif, [NoNotif EXCEPT !.passed = gate.ok, !.at = now])],
         id |-> id,
         tasks |-> IF gate.ok THEN _send_notifications(cfg) ELSE {}]

\* issue_call with the issue's value and threshold filled in the wrong way
\* round
issue_call_swapped(c, issue) ==
    [severity |-> safe_get(issue, "severity", IF c = "activity" THEN "info" ELSE "warning"),
     component |-> c,
     title |-> safe_get(issue, "type", "Issue"),
     message |-> safe_get(issue, "message", "issue detected"),
     threshold_value |-> safe_get(issue, "value", None),
     actual_value |-> safe_get(issue, "threshold", None),
     metadata |-> [keys |-> IF issue.kind = "dict" THEN issue.has ELSE {"issue"},
                   monitor |-> "", issue |-> issue]]

\* issue_call whose database and activity branches read the issue as the
\* other three do
issue_call_uniform(c, issue) ==
    [severity |-> safe_get(issue, "severity", IF c = "activity" THEN "info" ELSE "warning"),
     component |-> c,
     title |-> safe_get(issue, "type",
                 CASE c = "database" -> "Database Performance Issue"
                   [] c = "api" -> "API Issue" [] c = "queue" -> "Queue Issue"
                   [] c = "storage" -> "Storage Issue" [] OTHER -> "Activity Issue"),
     message |-> IF issue.kind = "str" THEN issue.text
                 ELSE safe_get(issue, "message", "issue detected"),
     threshold_value |-> safe_get(issue, "threshold", None),
     actual_value |-> safe_get(issue, "value", None),
     metadata |-> [keys |-> IF issue.kind = "dict" THEN issue.has ELSE {"issue"},
                   monitor |-> "", issue |-> issue]]

\* the create_alert arguments process_monitor_results builds for one issue
issue_call(c, issue) ==
    IF c = "database" THEN
        [severity |-> "warning", component |-> c,
         title |-> "Database Performance Issue",
         message |-> IF issue.kind = "str" THEN issue.text
                     ELSE safe_get(issue, "message", py_str(issue)),
         threshold_value |-> None, actual_value |-> None,
         metadata |-> [keys |-> {"monitor", "issue"}, monitor |-> c, issue |-> issue]]
    ELSE
        [severity |-> safe_get(issue, "severity", IF c = "activity" THEN "info" ELSE "warning"),
         component |-> c,
         title |-> safe_get(issue, "type",
                     CASE c = "api" -> "API Issue" [] c = "queue" -> "Queue Issue"
                       [] c = "storage" -> "Storage Issue" [] OTHER -> "Activity Issue"),
         message |-> safe_get(issue, "message",
                     CASE c = "api" -> "API performance issue detected"
                       [] c = "queue" -> "Queue processing issue detected"
                       [] c = "storage" -> "Storage issue detected"
                       [] OTHER -> "Activity pattern issue detected"),
         threshold_value |-> IF c = "activity" THEN None ELSE safe_get(issue, "threshold", None),
         actual_value |-> IF c = "activity" THEN None ELSE safe_get(issue, "value", None),
         metadata |-> [keys |-> IF issue.kind = "dict" THEN issue.has ELSE {"issue"},
                       monitor |-> "", issue |-> issue]]

\* component_issues that reads "issues" without testing the entry's type and
\* its has_issues
component_issues_trusting(res, c) ==
    IF c \in DOMAIN res THEN get(res[c], "issues", <<>>) ELSE <<>>

\* the issues one component contributes: none unless its result is a dict
\* with a truthy has_issues
component_issues(res, c) ==
    IF c \in DOMAIN res /\ res[c].kind = "dict" /\ get(res[c], "has_issues", FALSE)
    THEN get(res[c], "issues", <<>>) ELSE <<>>

RECURSIVE seq_map_call(_, _)
seq_map_call(c, iss) ==
    IF iss = <<>> THEN <<>> ELSE <<issue_call(c, Head(iss))>> \o seq_map_call(c, Tail(iss))

RECURSIVE monitor_calls_last_first(_, _)
\* monitor_calls that goes through the components in another order (the
\* last of cs first)
monitor_calls_last_first(res, cs) ==
    IF cs = <<>> THEN <<>>
    ELSE monitor_calls_last_first(res, Tail(cs))
             \o seq_map_call(Head(cs), component_issues(res, Head(cs)))

RECURSIVE monitor_calls(_, _)
\* process_monitor_results: the create_alert calls of a result map, in the
\* order the five branches make them
monitor_calls(res, cs) ==
    IF cs = <<>> THEN <<>>
    ELSE seq_map_call(Head(cs), component_issues(res, Head(cs))) \o monitor_calls(res, Tail(cs))

\* the keys of an issue that hold None
nulls_of(issue) == IF "nulls" \in DOMAIN issue THEN issue.nulls ELSE {}

\* Alert(...) validates its fields when create_alert constructs it: severity,
\* title and message are declared str, and a None read from the issue is
\* refused (pydantic raises ValidationError)
alert_valid(call) ==
    LET issue == call.metadata.issue IN
    IF call.component = "database"
    THEN issue.kind = "str" \/ "message" \notin nulls_of(issue)
    ELSE nulls_of(issue) \cap {"severity", "type", "message"} = {}

RECURSIVE run_creates_drop_suppressed(_, _, _, _, _)
\* run_creates that leaves an alert the gate refused out of alerts_created
run_creates_drop_suppressed(M, cfg, now, calls, created) ==
    IF calls = <<>>
    THEN [M |-> M, todo |-> <<>>, created |-> created, cur |-> 0, pending |-> {},
          pc |-> "idle", raised |-> FALSE]
    ELSE IF ~alert_valid(Head(calls))
    THEN [M |-> M, todo |-> <<>>, created |-> created, cur |-> 0, pending |-> {},
          pc |-> "idle", raised |-> TRUE]
    ELSE LET r == create_alert(M, cfg, now, Head(calls)) IN
         IF r.tasks # {}
         THEN [M |-> r.M, todo |-> Tail(calls), created |-> created, cur |-> r.id,
               pending |-> r.tasks, pc |-> "gather", raised |-> FALSE]
         ELSE run_creates_drop_suppressed(r.M, cfg, now, Tail(calls),
                  IF r.M.notif[r.id].passed THEN Append(created, r.id) ELSE created)

RECURSIVE run_creates(_, _, _, _, _)
\* process_monitor_results from a resumption point to its next suspension:
\* create_alert after create_alert until one awaits its channel tasks, one
\* raises on constructing its Alert (nothing is inserted for it, the issues
\* after it are never processed), or the call returns
run_creates(M, cfg, now, calls, created) ==
    IF calls = <<>>
    THEN [M |-> M, todo |-> <<>>, created |-> created, cur |-> 0, pending |-> {},
          pc |-> "idle", raised |-> FALSE]
    ELSE IF ~alert_valid(Head(calls))
    THEN [M |-> M, todo |-> <<>>, created |-> created, cur |-> 0, pending |-> {},
          pc |-> "idle", raised |-> TRUE]
    ELSE LET r == create_alert(M, cfg, now, Head(calls)) IN
         IF r.tasks # {}
         THEN [M |-> r.M, todo |-> Tail(calls), created |-> created, cur |-> r.id,
               pending |-> r.tasks, pc |-> "gather", raised |-> FALSE]
         ELSE run_creates(r.M, cfg, now, Tail(calls), Append(created, r.id))

Manager ==
    [alerts |-> alerts, active_alerts |-> active_alerts, alert_history |-> alert_history,
     cooldown_tracker |-> cooldown_tracker, notif |-> notif]

\* the state a run of process_monitor_results leaves
Resume(r) ==
    /\ alerts' = r.M.alerts
    /\ active_alerts' = r.M.active_alerts
    /\ alert_history' = r.M.alert_history
    /\ cooldown_tracker' = r.M.cooldown_tracker
    /\ notif' = r.M.notif
    /\ todo' = r.todo
    /\ alerts_created' = r.created
    /\ cur' = r.cur
    /\ pending' = r.pending
    /\ pc' = r.pc

\* ----------------------------------------------------------------- actions
\* no tool call has been answered since the manager last moved
NoCall == [op |-> "none", arg |-> None, text |-> ""]

InitWith(cfgs) ==
    /\ config \in cfgs
    /\ clock = 0
    /\ alerts = <<>>
    /\ active_alerts = <<>>
    /\ alert_history = <<>>
    /\ cooldown_tracker = <<>>
    /\ pc = "idle"
    /\ results = <<>>
    /\ todo = <<>>
    /\ cur = 0
    /\ pending = {}
    /\ inflight = {}
    /\ alerts_created = <<>>
    /\ notif = <<>>
    /\ last = NoCall
    /\ is_monitoring = FALSE
    /\ monitoring_task = None
    /\ tasks = <<>>

\* a caller invokes process_monitor_results(res); at most `cap` alerts are
\* created in a behaviour
process_monitor_results(res, cap) ==
    /\ pc = "idle"
    /\ Len(alerts) + Len(monitor_calls(res, Components)) <= cap
    /\ results' = res
    /\ Resume(run_creates(Manager, config, clock, monitor_calls(res, Components), <<>>))
    /\ last' = NoCall
    /\ UNCHANGED <<inflight, config, clock, orch>>

\* deliver whose failure cancels the channel tasks still pending
deliver_cancel_others(ch, outcome) ==
    /\ pc = "gather"
    /\ ch \in pending
    /\ pending' = IF outcome = "ok" THEN pending \ {ch} ELSE {}
    /\ notif' = [notif EXCEPT ![cur].tried[ch] = @ + 1,
                              ![cur].got = IF outcome = "ok" THEN @ \cup {ch} ELSE @]
    /\ UNCHANGED <<inflight, config, clock, alerts, active_alerts, alert_history, cooldown_tracker,
                   pc, results, todo, cur, alerts_created, orch>>
    /\ last' = NoCall

\* deliver whose exception is not caught: it leaves gather, create_alert and
\* process_monitor_results, whose remaining issues are never processed
deliver_raise_propagates(ch, outcome) ==
    /\ pc = "gather"
    /\ ch \in pending
    /\ notif' = [notif EXCEPT ![cur].tried[ch] = @ + 1,
                              ![cur].got = IF outcome = "ok" THEN @ \cup {ch} ELSE @]
    /\ IF outcome = "raise"
       THEN pc' = "idle" /\ pending' = {} /\ todo' = <<>>
       ELSE pc' = pc /\ pending' = pending \ {ch} /\ todo' = todo
    /\ UNCHANGED <<inflight, config, clock, alerts, active_alerts, alert_history, cooldown_tracker,
                   results, cur, alerts_created, orch>>
    /\ last' = NoCall

\* deliver that takes the record of the fire back when the delivery fails
deliver_failure_reopens(ch, outcome) ==
    /\ pc = "gather"
    /\ ch \in pending
    /\ pending' = pending \ {ch}
    /\ notif' = [notif EXCEPT ![cur].tried[ch] = @ + 1,
                              ![cur].got = IF outcome = "ok" THEN @ \cup {ch} ELSE @]
    /\ cooldown_tracker' =
          IF outcome = "ok" THEN cooldown_tracker
          ELSE [k \in DOMAIN cooldown_tracker \ {cooldown_key(alerts[cur].component, alerts[cur].title)}
                    |-> cooldown_tracker[k]]
    /\ UNCHANGED <<inflight, config, clock, alerts, active_alerts, alert_history,
                   pc, results, todo, cur, alerts_created, orch>>
    /\ last' = NoCall

\* one channel task of the gather runs to its end: _send_slack_notification
\* or _send_email_notification attempts the delivery once; every failure is
\* caught and logged inside the task
deliver(ch, outcome) ==
    /\ pc = "gather"
    /\ ch \in pending
    /\ pending' = pending \ {ch}
    /\ notif' = [notif EXCEPT ![cur].tried[ch] = @ + 1,
                              ![cur].got = IF outcome = "ok" THEN @ \cup {ch} ELSE @]
    /\ UNCHANGED <<inflight, config, clock, alerts, active_alerts, alert_history, cooldown_tracker,
                   pc, results, todo, cur, alerts_created, orch>>
    /\ last' = NoCall

\* gather has joined all its tasks: create_alert returns the alert, the loop
\* of process_monitor_results appends it and goes on
gather_done ==
    /\ pc = "gather"
    /\ pending = {}
    /\ Resume(run_creates(Manager, config, clock, todo, Append(alerts_created, cur)))
    /\ last' = NoCall
    /\ UNCHANGED <<inflight, config, clock, results, orch>>

\* datetime.now() moves on
tick(maxt) ==
    /\ clock < maxt
    /\ clock' = clock + 1
    /\ UNCHANGED <<inflight, config, alerts, active_alerts, alert_history, cooldown_tracker,
                   pc, results, todo, cur, pending, alerts_created, notif, orch>>
    /\ last' = NoCall

\* del d[x] on the insertion-ordered dict
dict_del(d, x) == SelectSeq(d, LAMBDA y : y # x)

\* resolve_alert that marks the alert resolved without recording when
resolve_alert_no_stamp(M, alert_id, now) ==
    IF \E i \in 1..Len(M.active_alerts) : M.active_alerts[i] = alert_id
    THEN [M EXCEPT !.alerts[alert_id].is_resolved = TRUE,
                   !.active_alerts = dict_del(@, alert_id)]
    ELSE M

\* resolve_alert that marks the alert resolved and leaves it in the active
\* set
resolve_alert_keep_active(M, alert_id, now) ==
    IF \E i \in 1..Len(M.active_alerts) : M.active_alerts[i] = alert_id
    THEN [M EXCEPT !.alerts[alert_id].is_resolved = TRUE,
                   !.alerts[alert_id].resolved_at = Some(now)]
    ELSE M

\* resolve_alert that takes the alert out of the history as well as out of
\* the active set
resolve_alert_drop_history(M, alert_id, now) ==
    IF \E i \in 1..Len(M.active_alerts) : M.active_alerts[i] = alert_id
    THEN [M EXCEPT !.alerts[alert_id].is_resolved = TRUE,
                   !.alerts[alert_id].resolved_at = Some(now),
                   !.active_alerts = dict_del(@, alert_id),
                   !.alert_history = dict_del(@, alert_id)]
    ELSE M

\* resolve_alert that looks the alert up among all alerts created instead of
\* among the active ones: a resolved alert is stamped again
resolve_alert_restamp(M, alert_id, now) ==
    IF alert_id \in 1..Len(M.alerts)
    THEN [M EXCEPT !.alerts[alert_id].is_resolved = TRUE,
                   !.alerts[alert_id].resolved_at = Some(now),
                   !.active_alerts = dict_del(@, alert_id)]
    ELSE M

\* resolve_alert that also forgets the last fire of the alert's key
resolve_alert_reopens_gate(M, alert_id, now) ==
    IF \E i \in 1..Len(M.active_alerts) : M.active_alerts[i] = alert_id
    THEN LET key == cooldown_key(M.alerts[alert_id].component, M.alerts[alert_id].title) IN
         [M EXCEPT !.alerts[alert_id].is_resolved = TRUE,
                   !.alerts[alert_id].resolved_at = Some(now),
                   !.active_alerts = dict_del(@, alert_id),
                   !.cooldown_tracker = [k \in DOMAIN @ \ {key} |-> @[k]]]
    ELSE M

\* AlertManager.resolve_alert: the manager state it leaves
resolve_alert(M, alert_id, now) ==
    IF \E i \in 1..Len(M.active_alerts) : M.active_alerts[i] = alert_id
    THEN [M EXCEPT !.alerts[alert_id].is_resolved = TRUE,
                   !.alerts[alert_id].resolved_at = Some(now),
                   !.active_alerts = dict_del(@, alert_id)]
    ELSE M

\* RSHealthMonitorServer._resolve_alert behind handle_call_tool: arg is
\* arguments.get("alert_id"), None when the argument is missing; the text is
\* the tool's answer
_resolve_alert(arg) ==
    /\ IF arg = None
       THEN /\ last' = [op |-> "resolve_alert", arg |-> arg, text |-> "Alert ID is required."]
            /\ UNCHANGED <<alerts, active_alerts, alert_history, cooldown_tracker, notif>>
       ELSE LET M == resolve_alert(Manager, arg[1], clock) IN
            /\ alerts' = M.alerts
            /\ active_alerts' = M.active_alerts
            /\ alert_history' = M.alert_history
            /\ cooldown_tracker' = M.cooldown_tracker
            /\ notif' = M.notif
            /\ last' = [op |-> "resolve_alert", arg |-> arg,
                        text |-> "Alert " \o ToString(arg[1]) \o " has been resolved."]
    /\ UNCHANGED <<inflight, config, clock, pc, results, todo, cur, pending, alerts_created, orch>>

\* AlertManager.get_active_alerts: list(self.active_alerts.values())
get_active_alerts(al, act) == [i \in 1..Len(act) |-> al[act[i]]]

\* get_alert_history over a history of copies made when the alerts were
\* created: every entry is as the alert was then, unresolved
get_alert_history_snapshots(al, hist, limit) ==
    LET n == IF Len(hist) < limit THEN Len(hist) ELSE limit IN
    [i \in 1..n |-> [al[hist[Len(hist) + 1 - i]] EXCEPT !.is_resolved = FALSE,
                                                        !.resolved_at = None]]

\* AlertManager.get_alert_history: the deque reversed, cut to limit
get_alert_history(al, hist, limit) ==
    LET n == IF Len(hist) < limit THEN Len(hist) ELSE limit IN
    [i \in 1..n |-> al[hist[Len(hist) + 1 - i]]]

\* ------------------------------------------------------------ health score
\* _get_health_score reading has_issues before error
get_health_score_issues_first(result) ==
    IF result.kind # "dict" THEN 50
    ELSE IF get(result, "has_issues", FALSE) THEN 75
    ELSE IF get(result, "error", "") # "" THEN 50
    ELSE 100

\* _get_health_score that does not look at the error field
get_health_score_error_ignored(result) ==
    IF result.kind # "dict" THEN 50
    ELSE IF ~get(result, "has_issues", FALSE) THEN 100 ELSE 75

\* RSHealthMonitorServer._get_health_score: result.get("error") and
\* result.get("has_issues") are tested for truth
_get_health_score(result) ==
    IF result.kind # "dict" THEN 50
    ELSE IF get(result, "error", "") # "" THEN 50
    ELSE IF ~get(result, "has_issues", FALSE) THEN 100 ELSE 75

RECURSIVE checked_of(_, _)
\* list(health_scores.keys()): the components of res in the order of the
\* if-statements that checked them
checked_of(res, cs) ==
    IF cs = <<>> THEN <<>>
    ELSE (IF Head(cs) \in DOMAIN res THEN <<Head(cs)>> ELSE <<>>) \o checked_of(res, Tail(cs))

RECURSIVE sum_scores(_, _)
\* sum(health_scores.values())
sum_scores(res, cs) ==
    IF cs = <<>> THEN 0 ELSE _get_health_score(res[Head(cs)]) + sum_scores(res, Tail(cs))

\* overall_score as the fraction num/den: the mean of the scores, 100 when
\* health_scores is empty
overall_score(res) ==
    LET cs == checked_of(res, Components) IN
    IF cs # <<>> THEN [num |-> sum_scores(res, cs), den |-> Len(cs)]
    ELSE [num |-> 100, den |-> 1]

\* round(overall_score, 1), in tenths: to the nearest tenth, a tie (the
\* quarters of a mean of four scores are exact floats) to the even tenth
round1(o) ==
    LET q == (10 * o.num) \div o.den
        r == (10 * o.num) % o.den
    IN  IF 2 * r < o.den THEN q
        ELSE IF 2 * r > o.den THEN q + 1
        ELSE IF q % 2 = 0 THEN q ELSE q + 1

\* "healthy" if overall_score >= 90 else "degraded" if overall_score >= 70
\* else "unhealthy", on the unrounded score
status_of(o) ==
    IF o.num >= 90 * o.den THEN "healthy"
    ELSE IF o.num >= 70 * o.den THEN "degraded" ELSE "unhealthy"

\* the summary dict of _system_health_summary: res is the results map, seen
\* the number of active alerts read before the results were processed
health_summary(res, seen) ==
    [overall_health_score |-> round1(overall_score(res)),
     overall |-> overall_score(res),
     status |-> status_of(overall_score(res)),
     active_alerts_count |-> seen,
     components_checked |-> checked_of(res, Components),
     health_scores |-> [c \in DOMAIN res |-> _get_health_score(res[c])]]

\* the reply of the system_health_summary tool
summary_reply(res, seen) ==
    [op |-> "system_health_summary", arg |-> None, text |-> "# RS Systems Health Summary",
     summary |-> health_summary(res, seen)]

\* ------------------------------------------------------------ orchestrator
\* the components whose monitor __init__ has built and settings.features
\* enables: the queue monitor is built on the database monitor
EnabledMonitors == {"database", "queue"}

\* an exception leaves `await monitor()`
Raises == [kind |-> "raise"]

\* QueueMonitor.monitor catches every exception of its checks and returns the
\* error dict
QueueOutcomes == {Healthy, Issues(<<StuckRepairs>>), ErrorOnly}

\* the monitors of the other components: a result, a result with an issue
\* the Alert model refuses, or an exception
OtherOutcomes == {Healthy, Issues(<<StuckRepairs>>), Issues(<<NullMessage>>), Raises}

\* what awaiting the monitor of component c can give
ProbeOutcomes(c) == IF c = "queue" THEN QueueOutcomes ELSE OtherOutcomes

\* One asyncio task of the server: a _monitoring_loop (kind "loop") or the
\* handling of one system_health_summary call (kind "summary").
\*   pc          where the coroutine is suspended: "new" (created, not yet
\*               run), "probe" (awaiting the monitor of `waiting`), "gather"
\*               (in process_monitor_results, awaiting the channel tasks),
\*               "sleep" (awaiting asyncio.sleep(interval)), "done"
\*   must_cancel Task.cancel() was called: CancelledError is thrown into the
\*               coroutine when it is next resumed
\*   results, seen, todo, cur, pending   the locals of the tick and of its
\*               process_monitor_results call that are still to be read
\*   stopped_at, probes, calls, raised, again   a record of what the task
\*               did: the pc at which it was cancelled; in the tick, the
\*               monitors awaited, the calls of process_monitor_results and
\*               whether it raised; whether the tick follows one that raised
NewTask(kind, interval, components) ==
    [kind |-> kind, interval |-> interval, components |-> components,
     pc |-> "new", must_cancel |-> FALSE, stopped_at |-> "",
     probes |-> <<>>, calls |-> 0, raised |-> FALSE, again |-> FALSE,
     results |-> <<>>, waiting |-> "", seen |-> 0,
     todo |-> <<>>, cur |-> 0, pending |-> {}]

\* what is left of a task that has ended
EndedTask(f) == [NewTask(f.kind, 0, {}) EXCEPT !.pc = "done"]

RECURSIVE first_probe(_, _)
\* the first of the if-statements of cs whose component is selected and whose
\* monitor is enabled; "" when none is left
first_probe(cs, selected) ==
    IF cs = <<>> THEN ""
    ELSE IF Head(cs) \in selected /\ Head(cs) \in EnabledMonitors THEN Head(cs)
    ELSE first_probe(Tail(cs), selected)

\* the if-statements after that of component c
rest_after(c) ==
    LET i == CHOOSE j \in 1..Len(Components) : Components[j] = c IN
    SubSeq(Components, i + 1, Len(Components))

\* the tool's answer when a handler raised: handle_call_tool catches it
error_reply(op, msg) == [op |-> op, arg |-> None, text |-> "Error: " \o msg]

\* what a system_health_summary call did, beside its answer: the components
\* asked for, the monitors awaited, the calls of process_monitor_results,
\* the results map
Did(reply, f) ==
    [op |-> reply.op, arg |-> reply.arg, text |-> reply.text,
     summary |-> IF f.raised THEN None ELSE Some(reply.summary),
     components |-> f.components, probes |-> f.probes, calls |-> f.calls,
     results |-> f.results]

\* tick_raised of a loop without its try/except: the exception ends the task
tick_raised_fatal(f) == [f EXCEPT !.pc = "done", !.raised = TRUE, !.waiting = ""]

\* the tick raised.  _monitoring_loop catches the exception, logs it and goes
\* on to asyncio.sleep(interval); _system_health_summary lets it through to
\* handle_call_tool, which answers with the error text.
tick_raised(f) ==
    IF f.kind = "loop"
    THEN [f EXCEPT !.pc = "sleep", !.raised = TRUE, !.again = FALSE, !.waiting = "",
                   !.results = <<>>, !.todo = <<>>, !.cur = 0]
    ELSE [f EXCEPT !.pc = "done", !.raised = TRUE, !.waiting = ""]

\* tick_returned of a loop whose sleep is skipped after a tick that returned:
\* the loop is back at its while-test
tick_returned_no_sleep(f) ==
    IF f.kind = "loop"
    THEN [f EXCEPT !.pc = "new", !.again = FALSE, !.results = <<>>, !.cur = 0]
    ELSE [f EXCEPT !.pc = "done"]

\* process_monitor_results returned.  _monitoring_loop goes on to
\* asyncio.sleep(interval); _system_health_summary builds its summary and
\* returns.
tick_returned(f) ==
    IF f.kind = "loop"
    THEN [f EXCEPT !.pc = "sleep", !.again = FALSE, !.results = <<>>, !.cur = 0]
    ELSE [f EXCEPT !.pc = "done"]

\* reply_of without the except clause of handle_call_tool: the exception of
\* a handler leaves the call without an answer
reply_of_propagates(f, msg) ==
    IF f.raised THEN NoCall
    ELSE Did(summary_reply(f.results, f.seen), f)

\* the answer of a summary call that has ended
reply_of(f, msg) ==
    IF f.raised THEN Did(error_reply("system_health_summary", msg), f)
    ELSE Did(summary_reply(f.results, f.seen), f)

\* the task after a run of process_monitor_results that gave r
after_creates(f, r) ==
    LET g == [f EXCEPT !.todo = r.todo, !.cur = r.cur, !.pending = r.pending] IN
    [M |-> r.M, msg |-> "validation error for Alert",
     f |-> IF r.pc = "gather" THEN [g EXCEPT !.pc = "gather"]
           ELSE IF r.raised THEN tick_raised(g)
           ELSE tick_returned(g)]

\* run_tick that reads the active alerts after process_monitor_results has
\* run
run_tick_count_after(M, f, cs, cfg, now) ==
    LET c == first_probe(cs, f.components) IN
    IF c # ""
    THEN [M |-> M, msg |-> "", f |-> [f EXCEPT !.pc = "probe", !.waiting = c]]
    ELSE LET r == run_creates(M, cfg, now, monitor_calls(f.results, Components), <<>>) IN
         after_creates([f EXCEPT !.waiting = "", !.seen = Len(r.M.active_alerts),
                                 !.calls = @ + 1], r)

\* a tick from its if-statements cs on: the next selected and enabled monitor
\* is awaited; when none is left, _system_health_summary reads the active
\* alerts, and the results go to process_monitor_results
run_tick(M, f, cs, cfg, now) ==
    LET c == first_probe(cs, f.components) IN
    IF c # ""
    THEN [M |-> M, msg |-> "", f |-> [f EXCEPT !.pc = "probe", !.waiting = c]]
    ELSE after_creates([f EXCEPT !.waiting = "", !.seen = Len(M.active_alerts),
                                 !.calls = @ + 1],
                       run_creates(M, cfg, now, monitor_calls(f.results, Components), <<>>))

\* the state a step of task t leaves: the manager, the task, and as last
\* answer the reply of a summary call that has just returned
Proceed(t, r) ==
    /\ alerts' = r.M.alerts
    /\ active_alerts' = r.M.active_alerts
    /\ alert_history' = r.M.alert_history
    /\ cooldown_tracker' = r.M.cooldown_tracker
    /\ notif' = r.M.notif
    /\ tasks' = [tasks EXCEPT ![t] = IF r.f.pc = "done" THEN EndedTask(r.f) ELSE r.f]
    /\ last' = IF r.f.kind = "summary" /\ r.f.pc = "done" THEN reply_of(r.f, r.msg) ELSE NoCall
    /\ UNCHANGED <<inflight, config, clock, pc, results, todo, cur, pending, alerts_created,
                   is_monitoring, monitoring_task>>

RECURSIVE planned(_)
\* the alerts the tasks q have still to create from what their monitors have
\* answered
planned(q) ==
    IF q = <<>> THEN 0
    ELSE (IF Head(q).pc = "probe"
          THEN Len(monitor_calls(Head(q).results, Components)) ELSE Len(Head(q).todo))
         + planned(Tail(q))

\* the ids a new task can take: that of a task that has ended, or the next
\* one while fewer than maxtasks tasks are held
free_ids(q, maxtasks) ==
    {t \in 1..Len(q) : q[t].pc = "done"} \cup (IF Len(q) < maxtasks THEN {Len(q) + 1} ELSE {})

\* the id asyncio.create_task gives the new task: the least free one
new_id(q, maxtasks) ==
    CHOOSE t \in free_ids(q, maxtasks) : \A u \in free_ids(q, maxtasks) : t <= u

\* the tasks with task f under id t
with_task(q, t, f) == IF t = Len(q) + 1 THEN Append(q, f) ELSE [q EXCEPT ![t] = f]

\* _start_monitoring without its test of is_monitoring: a start while
\* monitoring runs creates another loop task
start_monitoring_unguarded(arg, maxtasks) ==
    /\ LET interval == IF arg = None THEN 60 ELSE arg[1] IN
            /\ free_ids(tasks, maxtasks) # {}
            /\ is_monitoring' = TRUE
            /\ tasks' = with_task(tasks, new_id(tasks, maxtasks),
                                  NewTask("loop", interval, EnabledMonitors))
            /\ monitoring_task' = Some(new_id(tasks, maxtasks))
            /\ last' = [op |-> "start_monitoring", arg |-> arg,
                        text |-> "Started continuous monitoring with "
                                    \o ToString(interval) \o "s interval."]
    /\ UNCHANGED <<inflight, config, clock, alerts, active_alerts, alert_history, cooldown_tracker,
                   pc, results, todo, cur, pending, alerts_created, notif>>

\* RSHealthMonitorServer._start_monitoring behind handle_call_tool: arg is
\* arguments.get("interval_seconds"), None when the argument is missing; at
\* most maxtasks unfinished tasks exist at a time
_start_monitoring(arg, maxtasks) ==
    /\ IF is_monitoring
       THEN /\ last' = [op |-> "start_monitoring", arg |-> arg,
                        text |-> "Monitoring is already running."]
            /\ UNCHANGED orch
       ELSE LET interval == IF arg = None THEN 60 ELSE arg[1] IN
            /\ free_ids(tasks, maxtasks) # {}
            /\ is_monitoring' = TRUE
            /\ tasks' = with_task(tasks, new_id(tasks, maxtasks),
                                  NewTask("loop", interval, EnabledMonitors))
            /\ monitoring_task' = Some(new_id(tasks, maxtasks))
            /\ last' = [op |-> "start_monitoring", arg |-> arg,
                        text |-> "Started continuous monitoring with "
                                    \o ToString(interval) \o "s interval."]
    /\ UNCHANGED <<inflight, config, clock, alerts, active_alerts, alert_history, cooldown_tracker,
                   pc, results, todo, cur, pending, alerts_created, notif>>

\* task_cancel that leaves a task inside a tick (awaiting a monitor or the
\* channel tasks) alone: only a task that sleeps or has not yet run is marked
task_cancel_between_ticks(f) ==
    IF f.pc \in {"done", "probe", "gather"} THEN f
    ELSE [NewTask(f.kind, f.interval, f.components) EXCEPT
              !.pc = f.pc, !.must_cancel = TRUE, !.stopped_at = f.pc]

\* Task.cancel(): a finished task is left alone; otherwise the task is marked
\* and what it awaits is cancelled, which for the gather cancels the channel
\* tasks not yet finished.  The locals of the interrupted tick are not kept:
\* nothing reads them again.
task_cancel(f) ==
    IF f.pc = "done" THEN f
    ELSE [NewTask(f.kind, f.interval, f.components) EXCEPT
              !.pc = f.pc, !.must_cancel = TRUE, !.stopped_at = f.pc]

\* _stop_monitoring that clears the flag and the registration without
\* cancelling the task
stop_monitoring_flag_only ==
    /\ IF ~is_monitoring
       THEN /\ last' = [op |-> "stop_monitoring", arg |-> None,
                        text |-> "Monitoring is not running."]
            /\ UNCHANGED orch
       ELSE /\ is_monitoring' = FALSE
            /\ tasks' = tasks
            /\ monitoring_task' = None
            /\ last' = [op |-> "stop_monitoring", arg |-> None,
                        text |-> "Stopped continuous monitoring."]
    /\ UNCHANGED <<inflight, config, clock, alerts, active_alerts, alert_history, cooldown_tracker,
                   pc, results, todo, cur, pending, alerts_created, notif>>

\* RSHealthMonitorServer._stop_monitoring behind handle_call_tool
_stop_monitoring ==
    /\ IF ~is_monitoring
       THEN /\ last' = [op |-> "stop_monitoring", arg |-> None,
                        text |-> "Monitoring is not running."]
            /\ UNCHANGED orch
       ELSE /\ is_monitoring' = FALSE
            /\ IF monitoring_task # None
               THEN tasks' = [tasks EXCEPT ![monitoring_task[1]] = task_cancel(@)]
               ELSE tasks' = tasks
            /\ monitoring_task' = None
            /\ last' = [op |-> "stop_monitoring", arg |-> None,
                        text |-> "Stopped continuous monitoring."]
    /\ UNCHANGED <<inflight, config, clock, alerts, active_alerts, alert_history, cooldown_tracker,
                   pc, results, todo, cur, pending, alerts_created, notif>>

\* RSHealthMonitorServer.cleanup: stops the monitoring if it runs (the
\* closing of the database monitor leaves no trace in this state)
cleanup ==
    /\ IF is_monitoring
       THEN /\ is_monitoring' = FALSE
            /\ IF monitoring_task # None
               THEN tasks' = [tasks EXCEPT ![monitoring_task[1]] = task_cancel(@)]
               ELSE tasks' = tasks
            /\ monitoring_task' = None
       ELSE UNCHANGED orch
    /\ last' = [op |-> "cleanup", arg |-> None, text |-> ""]
    /\ UNCHANGED <<inflight, config, clock, alerts, active_alerts, alert_history, cooldown_tracker,
                   pc, results, todo, cur, pending, alerts_created, notif>>

\* _monitoring_loop at its while-test: task t runs for the first time, or its
\* asyncio.sleep(interval) has ended.  With is_monitoring false the loop
\* ends; otherwise the next tick starts.
_monitoring_loop(t) ==
    /\ tasks[t].kind = "loop"
    /\ tasks[t].pc \in {"new", "sleep"}
    /\ ~tasks[t].must_cancel
    /\ IF ~is_monitoring
       THEN Proceed(t, [M |-> Manager, msg |-> "", f |-> [tasks[t] EXCEPT !.pc = "done"]])
       ELSE Proceed(t, run_tick(Manager,
                                [tasks[t] EXCEPT !.probes = <<>>, !.calls = 0,
                                                 !.raised = FALSE, !.again = tasks[t].raised],
                                Components, config, clock))

\* RSHealthMonitorServer._system_health_summary behind handle_call_tool, up
\* to its first suspension: components is arguments.get("components", all);
\* summary calls are made one at a time, and at most maxtasks unfinished
\* tasks exist at a time
_system_health_summary(components, maxtasks) ==
    /\ free_ids(tasks, maxtasks) # {}
    /\ \A t \in 1..Len(tasks) : tasks[t].kind = "summary" => tasks[t].pc = "done"
    /\ LET r == run_tick(Manager, NewTask("summary", 0, components),
                         Components, config, clock)
       IN  /\ tasks' = IF r.f.pc = "done" THEN tasks
                       ELSE with_task(tasks, new_id(tasks, maxtasks), r.f)
           /\ last' = IF r.f.pc = "done" THEN reply_of(r.f, r.msg) ELSE NoCall
           /\ alerts' = r.M.alerts
           /\ active_alerts' = r.M.active_alerts
           /\ alert_history' = r.M.alert_history
           /\ cooldown_tracker' = r.M.cooldown_tracker
           /\ notif' = r.M.notif
    /\ UNCHANGED <<inflight, config, clock, pc, results, todo, cur, pending, alerts_created,
                   is_monitoring, monitoring_task>>

\* the monitor task t awaits answers with outcome; at most cap alerts are
\* created in a behaviour
probe_return(t, outcome, cap) ==
    /\ tasks[t].pc = "probe"
    /\ ~tasks[t].must_cancel
    /\ outcome \in ProbeOutcomes(tasks[t].waiting)
    /\ LET c == tasks[t].waiting
           f == [tasks[t] EXCEPT !.probes = Append(@, c)]
       IN  IF outcome = Raises
           THEN Proceed(t, [M |-> Manager, msg |-> c \o " monitor failed",
                            f |-> tick_raised(f)])
           ELSE /\ Len(alerts) + planned(tasks) + Len(component_issues((c :> outcome), c)) <= cap
                /\ Proceed(t, run_tick(Manager, [f EXCEPT !.results = (c :> outcome) @@ @],
                                       rest_after(c), config, clock))

\* one channel task of the gather of task t runs to its end (see deliver)
task_deliver(t, ch, outcome) ==
    /\ tasks[t].pc = "gather"
    /\ ~tasks[t].must_cancel
    /\ ch \in tasks[t].pending
    /\ tasks' = [tasks EXCEPT ![t].pending = @ \ {ch}]
    /\ notif' = [notif EXCEPT ![tasks[t].cur].tried[ch] = @ + 1,
                              ![tasks[t].cur].got = IF outcome = "ok" THEN @ \cup {ch} ELSE @]
    /\ last' = NoCall
    /\ UNCHANGED <<inflight, config, clock, alerts, active_alerts, alert_history, cooldown_tracker,
                   pc, results, todo, cur, pending, alerts_created,
                   is_monitoring, monitoring_task>>

\* the gather of task t has joined its channel tasks (see gather_done)
task_gather_done(t) ==
    /\ tasks[t].pc = "gather"
    /\ ~tasks[t].must_cancel
    /\ tasks[t].pending = {}
    /\ Proceed(t, after_creates(tasks[t],
                                run_creates(Manager, config, clock, tasks[t].todo, <<>>)))

\* task_cancelled as it would be were CancelledError an Exception: the
\* except clause of _monitoring_loop catches the cancellation of a tick, and
\* the loop goes on to its sleep
task_cancelled_caught(t) ==
    /\ tasks[t].must_cancel
    /\ tasks[t].pc # "done"
    /\ tasks' = [tasks EXCEPT ![t] =
                    IF @.kind = "loop" /\ @.pc \in {"probe", "gather"}
                    THEN [@ EXCEPT !.pc = "sleep", !.must_cancel = FALSE]
                    ELSE EndedTask(@)]
    /\ last' = NoCall
    /\ UNCHANGED <<inflight, config, clock, alerts, active_alerts, alert_history, cooldown_tracker,
                   pc, results, todo, cur, pending, alerts_created, notif,
                   is_monitoring, monitoring_task>>

\* task t is resumed after Task.cancel(): CancelledError is raised at its
\* await.  It is not an Exception, so neither the except clause of
\* _monitoring_loop nor that of handle_call_tool catches it: the task ends.
task_cancelled(t) ==
    /\ tasks[t].must_cancel
    /\ tasks[t].pc # "done"
    /\ tasks' = [tasks EXCEPT ![t] = EndedTask(@)]
    /\ last' = NoCall
    /\ UNCHANGED <<inflight, config, clock, alerts, active_alerts, alert_history, cooldown_tracker,
                   pc, results, todo, cur, pending, alerts_created, notif,
                   is_monitoring, monitoring_task>>

\* handle_call_tool with a name that is none of the tools
unknown_tool(name) ==
    /\ last' = [op |-> name, arg |-> None, text |-> "Unknown tool: " \o name]
    /\ UNCHANGED <<inflight, config, clock, alerts, active_alerts, alert_history, cooldown_tracker,
                   pc, results, todo, cur, pending, alerts_created, notif, orch>>

\* ---------------------------------------------------------- specifications
\* monitor results of every shape, deliveries on both channels, time
Init == InitWith(Configs(MaxCooldown))

Next ==
    \/ \E res \in ResultMaps : process_monitor_results(res, MaxAlerts)
    \/ \E ch \in Channels : \E o \in Outcomes(ch) : deliver(ch, o)
    \/ gather_done
    \/ tick(MaxTime)

Spec == Init /\ [][Next]_vars

\* one-issue results of two keys
GateMaps ==
    { [c \in {"queue"} |-> Issues(<<StuckRepairs>>)],
      [c \in {"api"} |-> Issues(<<StuckRepairs>>)] }

\* the resolve_alert tool beside the monitor results, the Slack webhook as the
\* only channel that may be configured
InitResolve == InitWith({c \in Configs(MaxCooldown) : ~c.email_enabled})

NextResolve ==
    \/ \E res \in GateMaps : process_monitor_results(res, MaxAlerts)
    \/ \E ch \in Channels : \E o \in Outcomes(ch) : deliver(ch, o)
    \/ gather_done
    \/ \E arg \in {None} \cup {Some(i) : i \in 1..MaxAlerts} : _resolve_alert(arg)
    \/ tick(MaxTime)

SpecResolve == InitResolve /\ [][NextResolve]_vars

\* the cooldown gate over longer runs: alerts of two keys, the Slack webhook
\* as the only channel that may be configured, no resolution
InitGate == InitWith({c \in Configs(GateCooldown) : ~c.email_enabled})

NextGate ==
    \/ \E res \in GateMaps : process_monitor_results(res, GateAlerts)
    \/ \E ch \in Channels : \E o \in Outcomes(ch) : deliver(ch, o)
    \/ gather_done
    \/ tick(GateTime)

SpecGate == InitGate /\ [][NextGate]_vars

\* the history deque past its capacity: one alert after another of one key
\* at one instant, under a cooldown that lets only the first be notified
HistoryMaps == { [c \in {"queue"} |-> Issues(<<StuckRepairs>>)] }

InitHistory == InitWith({c \in Configs(MaxCooldown) : c.cooldown_minutes > 0})

NextHistory ==
    \/ \E res \in HistoryMaps : process_monitor_results(res, MaxHistoryAlerts)
    \/ \E ch \in Channels : \E o \in Outcomes(ch) : deliver(ch, o)
    \/ gather_done

SpecHistory == InitHistory /\ [][NextHistory]_vars

\* the steps of task t: monitors answer with one of the outcomes `outs`
\* allows, at most cap alerts are created
TaskSteps(t, outs, cap) ==
    \/ _monitoring_loop(t)
    \/ \E o \in ProbeOutcomes(tasks[t].waiting) \cap outs : probe_return(t, o, cap)
    \/ \E ch \in Channels : \E o \in Outcomes(ch) : task_deliver(t, ch, o)
    \/ task_gather_done(t)
    \/ task_cancelled(t)

AllOutcomes == QueueOutcomes \cup OtherOutcomes

\* start and stop with every kind of interval argument, over loops whose
\* monitors find nothing to report
IntervalArgs == {None, Some(5), Some(10), Some(20)}

InitControl == InitWith({c \in Configs(0) : c.enabled /\ ~c.email_enabled})

NextControl ==
    \/ \E arg \in IntervalArgs : _start_monitoring(arg, ControlTasks)
    \/ _stop_monitoring
    \/ \E t \in 1..Len(tasks) : TaskSteps(t, {Healthy, ErrorOnly, Raises}, 0)

SpecControl == InitControl /\ [][NextControl]_vars

\* the background loop started, stopped and started again, its monitors
\* answering in every way; the Slack webhook as the only channel that may be
\* configured
InitLoop == InitWith({c \in Configs(0) : c.enabled /\ ~c.email_enabled})

NextLoop ==
    \/ _start_monitoring(None, LoopTasks)
    \/ _stop_monitoring
    \/ \E t \in 1..Len(tasks) : TaskSteps(t, AllOutcomes, LoopAlerts)

SpecLoop == InitLoop /\ [][NextLoop]_vars

\* ticks that raise: the background loop started, stopped and started again
\* over monitors answering in every way, with no notification channel
\* configured
InitBadTick == InitWith({c \in Configs(0) : c.enabled /\ ~c.slack_client /\ ~c.email_enabled})

NextBadTick ==
    \/ _start_monitoring(None, BadTickTasks)
    \/ _stop_monitoring
    \/ \E t \in 1..Len(tasks) : _monitoring_loop(t)
    \/ \E t \in 1..Len(tasks) : \E o \in ProbeOutcomes(tasks[t].waiting) :
           probe_return(t, o, BadTickAlerts)
    \/ \E t \in 1..Len(tasks) : task_cancelled(t)

\* the scheduling asyncio gives a sleeping loop: its asyncio.sleep(interval)
\* ends and the event loop resumes the task
SpecBadTick ==
    /\ InitBadTick /\ [][NextBadTick]_vars
    /\ \A t \in 1..BadTickTasks : WF_vars(t <= Len(tasks) /\ _monitoring_loop(t))

\* no loop task is left unfinished
LoopEnded == \A t \in 1..Len(tasks) : tasks[t].kind = "loop" => tasks[t].pc = "done"

\* start_monitoring called while monitoring runs, or once the loop stopped
\* before has ended
start_after_end(arg) ==
    /\ is_monitoring \/ LoopEnded
    /\ _start_monitoring(arg, Len(tasks) + 1)

\* an on-demand summary beside the background loop
ComponentArgs == {{}, {"queue"}, {"database", "queue"}}

InitOrch == InitWith({c \in Configs(0) : c.enabled /\ ~c.email_enabled})

NextOrch ==
    \/ start_after_end(None)
    \/ _stop_monitoring
    \/ \E cs \in ComponentArgs : _system_health_summary(cs, Len(tasks) + 1)
    \/ \E t \in 1..Len(tasks) : TaskSteps(t, AllOutcomes, OrchAlerts)

SpecOrch == InitOrch /\ [][NextOrch]_vars

\* the tools at the boundary of handle_call_tool: known and unknown names,
\* present and missing arguments, handlers that raise; no notification
\* channel is configured, so that no call waits for a delivery
ToolNames == {"restart_monitoring"}

InitTools == InitWith({c \in Configs(0) : c.enabled /\ ~c.slack_client /\ ~c.email_enabled})

NextTools ==
    \/ start_after_end(None)
    \/ _stop_monitoring
    \/ \E cs \in ComponentArgs : _system_health_summary(cs, Len(tasks) + 1)
    \/ \E t \in 1..Len(tasks) : _monitoring_loop(t)
    \/ \E t \in 1..Len(tasks) : \E o \in ProbeOutcomes(tasks[t].waiting) :
           probe_return(t, o, ToolAlerts)
    \/ \E t \in 1..Len(tasks) : task_cancelled(t)
    \/ \E arg \in {None} \cup {Some(i) : i \in 1..ToolAlerts} : _resolve_alert(arg)
    \/ \E name \in ToolNames : unknown_tool(name)

SpecTools == InitTools /\ [][NextTools]_vars

\* the health score as a function of the results map: what a monitor can
\* return for one component
ErrorAndIssues == DictResult({"error", "has_issues", "issues"}, TRUE, <<StuckRepairs>>)
ScoreShapes == {Healthy, Issues(<<StuckRepairs>>), ErrorOnly, ErrorAndIssues}

\* every results map _system_health_summary can have built: any components
\* checked, each with any of the shapes
ScoreMaps ==
    UNION { [S -> ScoreShapes] : S \in SUBSET {Components[i] : i \in 1..Len(Components)} }

InitScore ==
    /\ config = [enabled |-> FALSE, cooldown_minutes |-> 0,
                 slack_client |-> FALSE, email_enabled |-> FALSE]
    /\ clock = 0
    /\ alerts = <<>>
    /\ active_alerts = <<>>
    /\ alert_history = <<>>
    /\ cooldown_tracker = <<>>
    /\ pc = "idle"
    /\ results \in ScoreMaps
    /\ todo = <<>>
    /\ cur = 0
    /\ pending = {}
    /\ inflight = {}
    /\ alerts_created = <<>>
    /\ notif = <<>>
    /\ last = NoCall
    /\ is_monitoring = FALSE
    /\ monitoring_task = None
    /\ tasks = <<>>

\* _system_health_summary from the point where the monitors have answered
\* with `results` to the summary it builds
score_results ==
    /\ last = NoCall
    /\ last' = summary_reply(results, Len(active_alerts))
    /\ UNCHANGED <<inflight, config, clock, alerts, active_alerts, alert_history, cooldown_tracker,
                   pc, results, todo, cur, pending, alerts_created, notif, orch>>

NextScore == score_results

SpecScore == InitScore /\ [][NextScore]_vars

\* ---- the channel tasks of one gather, step by step on the event loop
\* what a channel task's end records: one attempt, and the receipt if it
\* succeeded
attempt(ch, outcome) ==
    [notif EXCEPT ![cur].tried[ch] = @ + 1,
                  ![cur].got = IF outcome = "ok" THEN @ \cup {ch} ELSE @]

\* the thread of the event loop is inside smtplib: no task can be resumed
loop_blocked == "email" \in inflight

\* _send_slack_notification up to its await of slack_client.send: gather made
\* its task first, so it is the first to run; the request is on its way
slack_post ==
    /\ pc = "gather"
    /\ "slack" \in pending \ inflight
    /\ ~loop_blocked
    /\ inflight' = inflight \cup {"slack"}
    /\ last' = NoCall
    /\ UNCHANGED <<config, clock, alerts, active_alerts, alert_history, cooldown_tracker,
                   pc, results, todo, cur, pending, alerts_created, notif, orch>>

\* _send_slack_notification from the answer of slack_client.send to its end:
\* the loop resumes the task once it is free again; the email task, made in
\* the same step as the Slack task, has had its only step by then
slack_answer(outcome) ==
    /\ pc = "gather"
    /\ "slack" \in inflight
    /\ ~loop_blocked
    /\ "email" \notin pending
    /\ pending' = pending \ {"slack"}
    /\ inflight' = inflight \ {"slack"}
    /\ notif' = attempt("slack", outcome)
    /\ last' = NoCall
    /\ UNCHANGED <<config, clock, alerts, active_alerts, alert_history, cooldown_tracker,
                   pc, results, todo, cur, alerts_created, orch>>

\* _send_email_notification enters `with smtplib.SMTP(...)`: the task runs
\* after the Slack task's first step and holds the thread from here on
email_begin ==
    /\ pc = "gather"
    /\ "email" \in pending \ inflight
    /\ "slack" \in pending => "slack" \in inflight
    /\ inflight' = inflight \cup {"email"}
    /\ last' = NoCall
    /\ UNCHANGED <<config, clock, alerts, active_alerts, alert_history, cooldown_tracker,
                   pc, results, todo, cur, pending, alerts_created, notif, orch>>

\* the SMTP conversation ends (sent, or an exception caught and logged) and
\* the task with it: it has no await
email_end(outcome) ==
    /\ pc = "gather"
    /\ "email" \in inflight
    /\ pending' = pending \ {"email"}
    /\ inflight' = inflight \ {"email"}
    /\ notif' = attempt("email", outcome)
    /\ last' = NoCall
    /\ UNCHANGED <<config, clock, alerts, active_alerts, alert_history, cooldown_tracker,
                   pc, results, todo, cur, alerts_created, orch>>

\* ---- alert manager whose channel tasks are followed step by step
GatherAlerts == 2
GatherTime == 2

InitGather == InitWith({c \in Configs(0) : c.enabled})

NextGather ==
    \/ \E res \in ResultMaps : process_monitor_results(res, GatherAlerts)
    \/ slack_post
    \/ \E o \in Outcomes("slack") : slack_answer(o)
    \/ email_begin
    \/ \E o \in Outcomes("email") : email_end(o)
    \/ gather_done
    \/ tick(GatherTime)

SpecGather == InitGather /\ [][NextGather]_vars

\* ---- process_monitor_results beside the resolve_alert tool: results of
\* several issues and components, the Slack webhook as the only channel that
\* may be configured
ReturnAlerts == 3
ReturnCooldown == 1

\* the clock stands still: a second alert of a key falls into the window
InitReturn ==
    InitWith({c \in Configs(ReturnCooldown) :
                  c.cooldown_minutes = ReturnCooldown /\ ~c.email_enabled})

NextReturn ==
    \/ \E res \in ResultMaps : process_monitor_results(res, ReturnAlerts)
    \/ \E ch \in Channels : \E o \in Outcomes(ch) : deliver(ch, o)
    \/ gather_done
    \/ \E arg \in {Some(i) : i \in 1..ReturnAlerts} : _resolve_alert(arg)

SpecReturn == InitReturn /\ [][NextReturn]_vars

\* ---- process_monitor_results on entries of every shape
\* a component's result that is not a dict (a list of pairs, say) although
\* it carries the same data
NotAMapping ==
    [kind |-> "other", has |-> {"has_issues", "issues"}, has_issues |-> TRUE,
     issues |-> <<StuckRepairs>>, error |-> ""]
\* a dict without the key has_issues
NoFlag == DictResult({"issues"}, TRUE, <<StuckRepairs>>)
\* has_issues false beside a list of issues
FlagFalse == DictResult({"has_issues", "issues"}, FALSE, <<StuckRepairs>>)

IllFormed == {NotAMapping, NoFlag, FlagFalse}

\* the five known keys and one that process_monitor_results does not know
ShapeKeys == {Components[i] : i \in 1..Len(Components)} \cup {"cache"}

ShapeMaps ==
    { [k \in {c} |-> s] : c \in ShapeKeys, s \in IllFormed \cup {Issues(<<StuckRepairs>>)} }
        \cup { [k \in {"database", "queue", "cache"} |->
                  CASE k = "database" -> Issues(<<SlowQuery>>)
                    [] k = "queue" -> NotAMapping
                    [] OTHER -> Issues(<<StuckRepairs>>)],
               [k \in {"api", "storage", "activity", "cache"} |->
                  CASE k = "api" -> NoFlag
                    [] k = "storage" -> FlagFalse
                    [] k = "activity" -> NotAMapping
                    [] OTHER -> Issues(<<LowCompletion>>)] }

ShapeAlerts == 2

InitShapes == InitWith({c \in Configs(0) : ~c.email_enabled})

NextShapes ==
    \/ \E res \in ShapeMaps : process_monitor_results(res, ShapeAlerts)
    \/ \E ch \in Channels : \E o \in Outcomes(ch) : deliver(ch, o)
    \/ gather_done

SpecShapes == InitShapes /\ [][NextShapes]_vars

\* ---- process_monitor_results on one issue of each kind under each
\* component
\* an issue dict without any of the keys read
EmptyIssue == DictIssue({}, "", "", "", None, None)

FieldIssues == {StuckRepairs, LowCompletion, EmptyIssue, SlowQuery}

FieldMaps ==
    { [k \in {c} |-> Issues(<<issue>>)] :
          c \in {Components[i] : i \in 1..Len(Components)}, issue \in FieldIssues }

FieldAlerts == 2

InitFields == InitWith({c \in Configs(0) : ~c.email_enabled})

NextFields ==
    \/ \E res \in FieldMaps : process_monitor_results(res, FieldAlerts)
    \/ \E ch \in Channels : \E o \in Outcomes(ch) : deliver(ch, o)
    \/ gather_done

SpecFields == InitFields /\ [][NextFields]_vars

\* ---- process_monitor_results on results of several components
OrderMaps ==
    { [k \in {"activity", "queue", "database"} |->
          CASE k = "activity" -> Issues(<<StuckRepairs>>)
            [] k = "queue" -> Issues(<<StuckRepairs, LowCompletion>>)
            [] OTHER -> Issues(<<SlowQuery>>)],
      [k \in {"storage", "api"} |->
          IF k = "storage" THEN Issues(<<LowCompletion>>) ELSE Issues(<<StuckRepairs>>)],
      [k \in {"queue"} |-> Issues(<<LowCompletion, StuckRepairs>>)] }

OrderAlerts == 4

InitOrder == InitWith({c \in Configs(0) : ~c.email_enabled})

NextOrder ==
    \/ \E res \in OrderMaps : process_monitor_results(res, OrderAlerts)
    \/ \E ch \in Channels : \E o \in Outcomes(ch) : deliver(ch, o)
    \/ gather_done

SpecOrder == InitOrder /\ [][NextOrder]_vars

\* ---- AlertManager.get_alert_summary
\* how many of the alerts ids (a sequence of ids) have value v in field f
count_by(al, ids, f, v) == Cardinality({i \in 1..Len(ids) : al[ids[i]][f] = v})

\* AlertManager.get_alert_summary: counts of the active alerts by severity
\* (the three known ones always listed) and by component, the alerts of the
\* history younger than 24 hours, and active[0] as most_recent_alert
get_alert_summary(al, act, hist, now) ==
    LET active == get_active_alerts(al, act)
        sevs == {"critical", "warning", "info"} \cup {active[i].severity : i \in 1..Len(active)}
        comps == {active[i].component : i \in 1..Len(active)}
    IN  [active_alerts_count |-> Len(active),
         severity_breakdown |-> [s \in sevs |-> count_by(al, act, "severity", s)],
         component_breakdown |-> [c \in comps |-> count_by(al, act, "component", c)],
         alerts_last_24h |->
             Cardinality({i \in 1..Len(hist) : al[hist[i]].created_at > now - 24 * 60}),
         most_recent_alert |-> IF Len(active) > 0 THEN Some(active[1]) ELSE None]

\* a caller reads the alert summary
read_alert_summary ==
    /\ last' = [op |-> "get_alert_summary", arg |-> None, text |-> "",
                summary |-> get_alert_summary(alerts, active_alerts, alert_history, clock)]
    /\ last' # last
    /\ UNCHANGED <<inflight, config, clock, alerts, active_alerts, alert_history, cooldown_tracker,
                   pc, results, todo, cur, pending, alerts_created, notif, orch>>

SummaryAlerts == 2
SummaryTime == 1

InitSummary == InitWith({c \in Configs(0) : ~c.slack_client /\ ~c.email_enabled})

NextSummary ==
    \/ \E res \in ResultMaps : process_monitor_results(res, SummaryAlerts)
    \/ \E arg \in {Some(i) : i \in 1..SummaryAlerts} : _resolve_alert(arg)
    \/ read_alert_summary
    \/ tick(SummaryTime)

SpecSummary == InitSummary /\ [][NextSummary]_vars

\* ---- a background loop and on-demand summaries creating alerts side by
\* side, under a cooldown, with the Slack webhook configured
FlowTasks == 2
FlowAlerts == 2
FlowTime == 1
FlowCooldown == 1

\* monitors that answer, with or without an issue
FlowOutcomes == {Healthy, Issues(<<StuckRepairs>>)}

InitFlows ==
    InitWith({c \in Configs(FlowCooldown) :
                  /\ c.enabled /\ c.slack_client /\ ~c.email_enabled
                  /\ c.cooldown_minutes = FlowCooldown})

NextFlows ==
    \/ _start_monitoring(None, FlowTasks)
    \/ \E cs \in {{"queue"}} : _system_health_summary(cs, FlowTasks)
    \/ \E t \in 1..Len(tasks) : _monitoring_loop(t)
    \/ \E t \in 1..Len(tasks) : \E o \in ProbeOutcomes(tasks[t].waiting) \cap FlowOutcomes :
           probe_return(t, o, FlowAlerts)
    \/ \E t \in 1..Len(tasks) : \E o \in Outcomes("slack") : task_deliver(t, "slack", o)
    \/ \E t \in 1..Len(tasks) : task_gather_done(t)
    \/ tick(FlowTime)

SpecFlows == InitFlows /\ [][NextFlows]_vars

\* ---- the life cycle of the loop task: start, stop and cleanup in any
\* order over loops whose monitors answer in every way, with no notification
\* channel configured
LifeTasks == 2
LifeAlerts == 1

InitLife == InitWith({c \in Configs(0) : c.enabled /\ ~c.slack_client /\ ~c.email_enabled})

NextLife ==
    \/ _start_monitoring(None, LifeTasks)
    \/ _stop_monitoring
    \/ cleanup
    \/ \E t \in 1..Len(tasks) : _monitoring_loop(t)
    \/ \E t \in 1..Len(tasks) : \E o \in ProbeOutcomes(tasks[t].waiting) :
           probe_return(t, o, LifeAlerts)
    \/ \E t \in 1..Len(tasks) : task_cancelled(t)

SpecLife == InitLife /\ [][NextLife]_vars

\* ---- create_alert called with component and title strings of its caller's
\* choosing, under a cooldown, with the Slack webhook configured
KeyAlerts == 2
KeyTime == 1
KeyCooldown == 1

\* str arguments create_alert accepts for component and title
KeyComponents == {"a", "a:b"}
KeyTitles == {"c", "b:c"}

\* the arguments of create_alert(severity, component, title, message)
DirectCall(component, title) ==
    [severity |-> "warning", component |-> component, title |-> title,
     message |-> "m", threshold_value |-> None, actual_value |-> None,
     metadata |-> [keys |-> {}, monitor |-> "", issue |-> StrIssue("")]]

\* a caller awaits create_alert(...) with these strings: the call runs to its
\* await on the channel tasks, or returns the alert
call_create_alert(component, title, cap) ==
    /\ pc = "idle"
    /\ Len(alerts) < cap
    /\ Resume(run_creates(Manager, config, clock, <<DirectCall(component, title)>>, <<>>))
    /\ last' = NoCall
    /\ UNCHANGED <<inflight, config, clock, results, orch>>

InitKeys ==
    InitWith({c \in Configs(KeyCooldown) :
                  /\ c.enabled /\ c.slack_client /\ ~c.email_enabled
                  /\ c.cooldown_minutes = KeyCooldown})

NextKeys ==
    \/ \E c \in KeyComponents : \E t \in KeyTitles : call_create_alert(c, t, KeyAlerts)
    \/ \E o \in Outcomes("slack") : deliver("slack", o)
    \/ gather_done
    \/ tick(KeyTime)

SpecKeys == InitKeys /\ [][NextKeys]_vars

\* ------------------------------------------------------------------ claims
InSeq(x, q) == \E i \in 1..Len(q) : q[i] = x

AlertIds == 1..Len(alerts)

KeyOf(a) == cooldown_key(alerts[a].component, alerts[a].title)

\* no delivery of alert a was attempted on any channel
Untried(a) == \A ch \in Channels : notif[a].tried[ch] = 0

\* every configured channel of alert a was attempted once, no other channel
\* at all; a channel task still pending in the gather has not been attempted
TriedOnce(a) ==
    \A ch \in Channels :
        notif[a].tried[ch] =
            IF ch \in _send_notifications(config) /\ ~(pc = "gather" /\ cur = a /\ ch \in pending)
            THEN 1 ELSE 0

\* b is a later alert of a's key whose gate check fell inside the window
\* that the allowed fire a opened (notif[x].at is the time the gate read for
\* x, which in create_alert is also its created_at)
InWindowOf(a, b) ==
    /\ a < b
    /\ KeyOf(a) = KeyOf(b)
    /\ notif[a].passed
    /\ notif[b].at < notif[a].at + config.cooldown_minutes

\* the allowed fires of b's key before b
FiresBefore(b) == {a \in AlertIds : a < b /\ KeyOf(a) = KeyOf(b) /\ notif[a].passed}

\* the last allowed fire of key k
LastFire(k) ==
    CHOOSE a \in AlertIds :
        /\ KeyOf(a) = k /\ notif[a].passed
        /\ \A a2 \in AlertIds : KeyOf(a2) = k /\ notif[a2].passed => a2 <= a

\* C1 (state): an alert created inside the cooldown window of an allowed fire
\* of its key does not pass the gate and is delivered on no channel, and it is
\* in the active set and in the history all the same.
C1_Suppressed ==
    \A a, b \in AlertIds :
        InWindowOf(a, b) =>
            /\ ~notif[b].passed
            /\ Untried(b)
            /\ InSeq(b, active_alerts)
            /\ InSeq(b, alert_history)

\* C1 (step): a step that creates alerts adds each of them to the active set
\* and to the history (each grows by the number created, here below the
\* history's capacity), and changes the delivery counts of no alert.
C1_Created ==
    Len(alerts') > Len(alerts) =>
        /\ Len(active_alerts') = Len(active_alerts) + (Len(alerts') - Len(alerts))
        /\ Len(alert_history') = Len(alert_history) + (Len(alerts') - Len(alerts))
        /\ \A b \in (Len(alerts) + 1)..Len(alerts') :
              /\ InSeq(b, active_alerts') /\ InSeq(b, alert_history')
              /\ \A ch \in Channels : notif'[b].tried[ch] = 0
        /\ \A a \in AlertIds : notif'[a] = notif[a]

\* C1: create always, notify conditionally. A second create_alert of a
\* (component, title) pair inside the cooldown window of an allowed fire still
\* inserts the alert into the active set and the history, and dispatches
\* nothing for it.
C1_CreateAlwaysNotifyConditionally == [](C1_Suppressed) /\ [][C1_Created]_vars

\* C1 witness: an allowed fire was delivered, and a later alert of its key,
\* created inside its window, sits in the registry with no delivery attempted
C1_Witness ==
    \E a, b \in AlertIds :
        /\ InWindowOf(a, b)
        /\ notif[a].tried["slack"] = 1
        /\ InSeq(b, active_alerts) /\ InSeq(b, alert_history)
        /\ Untried(b)
        /\ pc = "idle"

\* C2: once the window has elapsed since the last allowed fire of a key, the
\* next create_alert of that key passes the gate and is dispatched (every
\* configured channel is attempted once); and two alerts of one key that both
\* passed the gate are at least one cooldown window apart.
C2_FiresAgainOncePerWindow ==
    /\ \A b \in AlertIds :
          (/\ FiresBefore(b) # {}
           /\ \A a \in FiresBefore(b) :
                 notif[b].at >= notif[a].at + config.cooldown_minutes)
          => notif[b].passed /\ TriedOnce(b)
    /\ \A a, b \in AlertIds :
          (a < b /\ KeyOf(a) = KeyOf(b) /\ notif[a].passed /\ notif[b].passed)
          => notif[b].at >= notif[a].at + config.cooldown_minutes

\* C2 witness: two alerts of one key passed the gate a full (non-empty)
\* window apart and both were delivered, with a refused one between them
C2_Witness ==
    \E a, b, c \in AlertIds :
        /\ a < b /\ b < c /\ KeyOf(a) = KeyOf(b) /\ KeyOf(b) = KeyOf(c)
        /\ config.cooldown_minutes > 0
        /\ notif[a].passed /\ ~notif[b].passed /\ notif[c].passed
        /\ notif[a].tried["slack"] = 1 /\ notif[c].tried["slack"] = 1
        /\ notif[c].at >= notif[a].at + config.cooldown_minutes

\* C3: a refusal leaves the key's timestamp alone. The timestamp stored for a
\* key is the time of its last allowed fire, whatever was refused since, and
\* the gate lets the key pass at every time from that fire plus the window on.
C3_WindowAnchoredToLastAllowedFire ==
    \A k \in DOMAIN cooldown_tracker :
        /\ \E a \in AlertIds : KeyOf(a) = k /\ notif[a].passed
        /\ cooldown_tracker[k] = notif[LastFire(k)].at
        /\ \A t \in 0..(GateTime + GateCooldown) :
              t >= notif[LastFire(k)].at + config.cooldown_minutes
              => _should_alert(config, cooldown_tracker, alerts[LastFire(k)].component,
                               alerts[LastFire(k)].title, t).ok

\* C3 witness: a fire, a refused attempt at a later time, and then an alert
\* that passes as soon as the window of the fire has elapsed, before a window
\* counted from the refused attempt would have ended
C3_Witness ==
    \E a, b, c \in AlertIds :
        /\ InWindowOf(a, b)
        /\ notif[b].at > notif[a].at
        /\ ~notif[b].passed
        /\ b < c /\ KeyOf(c) = KeyOf(a) /\ notif[c].passed
        /\ notif[c].at = notif[a].at + config.cooldown_minutes
        /\ notif[c].at < notif[b].at + config.cooldown_minutes
        /\ cooldown_tracker[KeyOf(a)] = notif[c].at

\* C4: with config.enabled false the gate refuses every key at every time,
\* the cooldown map stays empty and no delivery is attempted, while every
\* alert created is in the active set and the history.
C4_DisabledNeverNotifies ==
    ~config.enabled =>
        /\ DOMAIN cooldown_tracker = {}
        /\ pc = "idle" /\ pending = {}
        /\ \A b \in AlertIds :
              /\ ~notif[b].passed /\ Untried(b)
              /\ InSeq(b, active_alerts) /\ InSeq(b, alert_history)
        /\ \A c \in {"queue", "api"} : \A t \in 0..GateTime :
              LET g == _should_alert(config, cooldown_tracker, c, "stuck_repairs", t) IN
              ~g.ok /\ g.tracker = cooldown_tracker

\* C4 witness: alerts of both keys created at different times with alerts
\* disabled and the Slack channel configured
C4_Witness ==
    /\ ~config.enabled /\ config.slack_client
    /\ \E a, b \in AlertIds :
          KeyOf(a) # KeyOf(b) /\ notif[a].at < notif[b].at
    /\ Len(active_alerts) = Len(alerts)

\* the ids of the alerts in a list of alerts
IdsOf(list) == {list[i].id : i \in 1..Len(list)}

\* the step is the resolve_alert tool answering a call for alert id
ResolveStep(id) == last'.op = "resolve_alert" /\ last'.arg = Some(id)

\* C5: resolve_alert(id) of an active alert takes it out of
\* get_active_alerts() and leaves the history buffer as it was, same length
\* and same order, so that the alert is still returned by get_alert_history
\* (asked for the whole buffer) if it was in the buffer.
C5_ResolveKeepsHistory ==
    [][\A id \in AlertIds :
          (ResolveStep(id) /\ InSeq(id, active_alerts)) =>
              /\ id \notin IdsOf(get_active_alerts(alerts', active_alerts'))
              /\ alert_history' = alert_history
              /\ (InSeq(id, alert_history) =>
                     id \in IdsOf(get_alert_history(alerts', alert_history', HistoryMaxLen)))
              /\ IdsOf(get_active_alerts(alerts', active_alerts'))
                     = IdsOf(get_active_alerts(alerts, active_alerts)) \ {id}]_vars

\* C5 witness: the tool has just resolved an alert that another, still
\* active alert follows in the history; it is gone from the active list and
\* still in the history
C5_Witness ==
    \E id \in AlertIds :
        /\ last.op = "resolve_alert" /\ last.arg = Some(id)
        /\ alerts[id].is_resolved /\ alerts[id].resolved_at = Some(clock)
        /\ id \notin IdsOf(get_active_alerts(alerts, active_alerts))
        /\ id \in IdsOf(get_alert_history(alerts, alert_history, HistoryMaxLen))
        /\ Len(alert_history) = 2 /\ Len(active_alerts) = 1

\* C6: resolve_alert(id) of an id that is not in the active set, never
\* created or resolved before, changes nothing: the alerts (so the resolution
\* time of a resolved one), the active set, the history and the cooldown map
\* stay as they are, and the tool answers that the alert has been resolved.
C6_ResolveAbsentIsNoOp ==
    [][\A id \in 1..(MaxAlerts + 1) :
          (ResolveStep(id) /\ ~InSeq(id, active_alerts)) =>
              /\ alerts' = alerts
              /\ active_alerts' = active_alerts
              /\ alert_history' = alert_history
              /\ cooldown_tracker' = cooldown_tracker
              /\ last'.text = "Alert " \o ToString(id) \o " has been resolved."]_vars

\* C6 witness: the tool has just answered a call for an alert that had been
\* resolved at an earlier time
C6_WitnessResolved ==
    \E id \in AlertIds :
        /\ last.op = "resolve_alert" /\ last.arg = Some(id)
        /\ alerts[id].is_resolved
        /\ alerts[id].resolved_at # Some(clock)
        /\ last.text = "Alert " \o ToString(id) \o " has been resolved."
        /\ DOMAIN cooldown_tracker # {}

\* C7: the history buffer never holds more than its capacity; it holds the
\* most recently created alerts, as many as fit, in creation order: a
\* create_alert on a full buffer drops the oldest entry and appends the new one.
C7_HistoryBoundedFifo ==
    /\ Len(alert_history) <= HistoryMaxLen
    /\ Len(alert_history) = IF Len(alerts) < HistoryMaxLen THEN Len(alerts) ELSE HistoryMaxLen
    /\ \A i \in 1..Len(alert_history) :
          alert_history[i] = Len(alerts) - Len(alert_history) + i

\* C7 witness: two alerts more than the capacity have been created; the
\* buffer is full, its oldest entry is the third alert, its newest the last
C7_Witness ==
    /\ Len(alerts) = HistoryMaxLen + 2
    /\ Len(alert_history) = HistoryMaxLen
    /\ alert_history[1] = 3
    /\ alert_history[HistoryMaxLen] = Len(alerts)

\* C8: each configured channel of an alert that passed the gate is attempted
\* once whatever the other channel's delivery did: a failed delivery neither
\* prevents nor cancels the other channel's attempt, and a channel whose
\* delivery succeeded has received the alert.
C8_FailureIsolatedPerChannel ==
    /\ \A a \in AlertIds : notif[a].passed => TriedOnce(a)
    /\ \A a \in AlertIds : \A ch \in notif[a].got : notif[a].tried[ch] = 1
    /\ pc = "gather" => pending \subseteq _send_notifications(config)

\* C8 witness: one alert whose Slack delivery failed and whose email arrived,
\* and one whose email failed and whose Slack delivery arrived
C8_Witness ==
    \E a, b \in AlertIds :
        /\ notif[a].tried["slack"] = 1 /\ notif[a].got = {"email"}
        /\ notif[b].tried["email"] = 1 /\ notif[b].got = {"slack"}

\* C9: dispatch never raises to its caller. Whatever the deliveries do,
\* create_alert returns its alert to process_monitor_results, which goes on
\* with the remaining issues: a call that has returned has created one alert
\* per issue, and every alert created is in the active set and the history.
C9_DispatchNeverRaises ==
    LET total == Len(monitor_calls(results, Components)) IN
    /\ pc = "idle" => Len(alerts_created) = total
    /\ pc = "gather" =>
          /\ Len(alerts_created) + 1 + Len(todo) = total
          /\ InSeq(cur, active_alerts) /\ InSeq(cur, alert_history)
    /\ \A i \in 1..Len(alerts_created) :
          /\ InSeq(alerts_created[i], active_alerts)
          /\ InSeq(alerts_created[i], alert_history)

\* C9 witness: a call with two issues has returned both alerts although every
\* delivery of both, on both channels, failed
C9_Witness ==
    /\ pc = "idle"
    /\ Len(alerts_created) = 2
    /\ \A i \in 1..2 :
          /\ notif[alerts_created[i]].passed
          /\ notif[alerts_created[i]].got = {}
          /\ \A ch \in Channels : notif[alerts_created[i]].tried[ch] = 1

\* C10: a result whose api, queue or storage entry has has_issues true and
\* the one issue stuck_repairs (severity warning, value 5, threshold 3) yields
\* exactly one alert of that component, with the issue's severity, type as
\* title, message, value as actual_value and threshold as threshold_value;
\* with alerts enabled and no earlier allowed fire of the key, every
\* configured channel is attempted exactly once and no other channel at all.
C10_QueueExample ==
    \A c \in {"api", "queue", "storage"} :
        (pc = "idle" /\ c \in DOMAIN results /\ results[c] = Issues(<<StuckRepairs>>)) =>
            LET mine == {i \in 1..Len(alerts_created) :
                            alerts[alerts_created[i]].component = c} IN
            /\ Cardinality(mine) = 1
            /\ \A i \in mine :
                  LET a == alerts[alerts_created[i]] IN
                  /\ a.severity = "warning"
                  /\ a.title = "stuck_repairs"
                  /\ a.message = "5 stuck"
                  /\ a.actual_value = Some(5)
                  /\ a.threshold_value = Some(3)
                  /\ (config.enabled /\ FiresBefore(a.id) = {}) =>
                         notif[a.id].passed /\ TriedOnce(a.id)

\* C10 witness: the queue example has been processed with alerts enabled and
\* both channels configured: one alert, one delivery attempt on each channel
C10_Witness ==
    /\ pc = "idle"
    /\ results = [c \in {"queue"} |-> Issues(<<StuckRepairs>>)]
    /\ config.enabled /\ config.slack_client /\ config.email_enabled
    /\ Len(alerts_created) = 1
    /\ alerts[alerts_created[1]].component = "queue"
    /\ FiresBefore(alerts_created[1]) = {}
    /\ \A ch \in Channels : notif[alerts_created[1]].tried[ch] = 1

\* the score the rule of thumb gives a result: 50 with an error field, else
\* 75 with has_issues true, else 100
RuleScore(r) ==
    IF "error" \in r.has THEN 50
    ELSE IF "has_issues" \in r.has /\ r.has_issues THEN 75 ELSE 100

RECURSIVE RuleSum(_, _)
RuleSum(res, S) ==
    IF S = {} THEN 0
    ELSE LET c == CHOOSE x \in S : TRUE IN RuleScore(res[c]) + RuleSum(res, S \ {c})

Summarized == last.op = "system_health_summary"

LiveLoops(q) == {t \in 1..Len(q) : q[t].kind = "loop" /\ q[t].pc # "done" /\ ~q[t].must_cancel}

StartStep == last'.op = "start_monitoring" /\ last' # last
StopStep == last'.op = "stop_monitoring" /\ last' # last

\* C12: start_monitoring while monitoring runs answers "already running" and
\* leaves is_monitoring, the loop task and its interval as they are;
\* start_monitoring while idle registers one new loop task with the interval
\* asked for, also right after a stop; stop_monitoring while idle changes
\* nothing; stop_monitoring while running cancels the loop task.  There is
\* never more than one loop task that has not been cancelled, and it is the
\* registered one.
C12_StartStopStateMachine ==
    [][ /\ (StartStep /\ is_monitoring) =>
                /\ last'.text = "Monitoring is already running."
                /\ UNCHANGED orch
        /\ (StartStep /\ ~is_monitoring) =>
                /\ is_monitoring' /\ monitoring_task' # None
                /\ LET t == monitoring_task'[1] IN
                   /\ t \notin LiveLoops(tasks)
                   /\ tasks'[t].kind = "loop" /\ tasks'[t].pc = "new"
                   /\ ~tasks'[t].must_cancel
                   /\ last'.arg # None => tasks'[t].interval = last'.arg[1]
                   /\ \A u \in 1..Len(tasks) : u # t => tasks'[u] = tasks[u]
        /\ (StopStep /\ ~is_monitoring) =>
                /\ last'.text = "Monitoring is not running."
                /\ UNCHANGED orch
        /\ (StopStep /\ is_monitoring) =>
                /\ ~is_monitoring' /\ monitoring_task' = None
                /\ LiveLoops(tasks') = {}
        /\ LiveLoops(tasks') \subseteq {monitoring_task'[i] : i \in 1..Len(monitoring_task')}
      ]_vars

\* stop_monitoring and then start_monitoring(20) while the loop started with
\* interval 10 has not yet ended: the new loop is registered with interval 20
C12_Witness ==
    /\ is_monitoring
    /\ last = [op |-> "start_monitoring", arg |-> Some(20),
               text |-> "Started continuous monitoring with 20s interval."]
    /\ tasks[monitoring_task[1]].interval = 20
    /\ \E t \in 1..Len(tasks) : tasks[t].must_cancel /\ tasks[t].interval = 10

\* C16: start_monitoring without interval_seconds runs its loop with an
\* interval of 60 seconds, and no loop sleeps for an interval shorter than
\* 10 seconds, whatever interval_seconds the start request carried.
C16_MinimumInterval ==
    /\ \A t \in 1..Len(tasks) :
            (tasks[t].kind = "loop" /\ tasks[t].pc = "sleep") => tasks[t].interval >= 10
    /\ (last.op = "start_monitoring" /\ last.arg = None /\ monitoring_task # None
            /\ last.text # "Monitoring is already running.")
            => tasks[monitoring_task[1]].interval = 60


\* the loop task t was cancelled by stop_monitoring and has not ended
Stopped(t) == tasks[t].kind = "loop" /\ tasks[t].stopped_at # "" /\ tasks[t].pc # "done"

\* C13: once stop_monitoring has cancelled a loop task, no step of that task
\* creates an alert or attempts a delivery: whatever point of its tick the
\* task was at, and also when start_monitoring has been called again, the
\* steps it still takes leave the registry, the cooldown map and the
\* delivery record as they are.
C13_NoWorkAfterStop ==
    [][ \A t \in 1..Len(tasks) :
            (Stopped(t) /\ tasks'[t] # tasks[t]) =>
                UNCHANGED <<alerts, active_alerts, alert_history, cooldown_tracker, notif>>
      ]_vars

\* a loop stopped while its tick awaited the Slack delivery of alert 1 has
\* ended, and monitoring has been started again: the delivery was never
\* attempted
C13_Witness ==
    /\ is_monitoring
    /\ config.slack_client
    /\ Len(tasks) = 2
    /\ tasks[1].pc = "done"
    /\ tasks[2].kind = "loop" /\ tasks[2].pc = "new" /\ ~tasks[2].must_cancel
    /\ Len(alerts) = 1
    /\ notif[1].passed
    /\ \A ch \in Channels : notif[1].tried[ch] = 0


\* the loop task t sleeps after a tick that raised, and has not been cancelled
RaisedAsleep(t) ==
    /\ t <= Len(tasks)
    /\ tasks[t].kind = "loop" /\ tasks[t].pc = "sleep"
    /\ tasks[t].raised /\ ~tasks[t].must_cancel

\* the loop task t has begun the tick after one that raised
TicksAgain(t) == t <= Len(tasks) /\ tasks[t].kind = "loop" /\ tasks[t].again

\* C14: an exception of a monitor or of process_monitor_results in a tick of
\* the background loop does not end the loop task: a loop task ends only
\* after stop_monitoring cancelled it, and a loop that sleeps after a tick
\* that raised begins a further tick unless monitoring is stopped meanwhile.
C14_LoopSurvivesBadTick ==
    /\ [][ \A t \in 1..Len(tasks) :
               (tasks[t].kind = "loop" /\ tasks[t].pc # "done" /\ tasks'[t].pc = "done")
                   => tasks[t].must_cancel ]_vars
    /\ \A t \in 1..BadTickTasks :
           RaisedAsleep(t) ~>
               (TicksAgain(t) \/ (t <= Len(tasks) /\ (tasks[t].must_cancel \/ tasks[t].pc = "done")))

\* monitoring runs, and its loop is in the tick that follows one that raised
C14_Witness ==
    /\ is_monitoring
    /\ monitoring_task # None
    /\ TicksAgain(monitoring_task[1])
    /\ tasks[monitoring_task[1]].pc = "probe"
    /\ ~tasks[monitoring_task[1]].must_cancel


\* the monitors a tick over the selected components has to await, in the
\* order of its if-statements
ExpectedProbes(selected) ==
    SelectSeq(Components, LAMBDA c : c \in selected /\ c \in EnabledMonitors)

\* the components whose monitor a tick awaited without getting a result
FailedProbes(d) == {d.probes[i] : i \in 1..Len(d.probes)} \ DOMAIN d.results

\* C15: when the monitor of one component raises in a tick, the tick still
\* awaits the monitors of the other selected and enabled components and
\* hands the results to process_monitor_results once; this holds of a tick
\* of the background loop and of a system_health_summary call, whose summary
\* is still built and scores the failed component 50.
C15_ProbeFailureIsolated ==
    /\ \A t \in 1..Len(tasks) :
            (tasks[t].kind = "loop" /\ tasks[t].pc = "sleep" /\ tasks[t].probes # <<>>) =>
                /\ tasks[t].probes = ExpectedProbes(tasks[t].components)
                /\ tasks[t].calls = 1
    /\ (Summarized /\ last.probes # <<>>) =>
            /\ last.probes = ExpectedProbes(last.components)
            /\ last.calls = 1
            /\ \A c \in FailedProbes(last) :
                    /\ last.summary # None
                    /\ c \in DOMAIN last.summary[1].health_scores
                    /\ last.summary[1].health_scores[c] = 50

\* C17: a system_health_summary call awaits each selected and enabled
\* monitor once and calls process_monitor_results once with the results,
\* whether or not monitoring runs, and the step that answers it leaves
\* is_monitoring, the registered loop task and every loop task as they were.
C17_SummaryRunsOneTick ==
    [][ (last'.op = "system_health_summary" /\ last' # last) =>
            /\ last'.probes = ExpectedProbes(last'.components)
            /\ DOMAIN last'.results = {c \in last'.components : c \in EnabledMonitors}
            /\ last'.calls = 1
            /\ UNCHANGED <<is_monitoring, monitoring_task>>
            /\ \A t \in 1..Len(tasks) : tasks[t].kind = "loop" => tasks'[t] = tasks[t]
      ]_vars


ErrorTexts == {"Error: " \o c \o " monitor failed" : c \in EnabledMonitors}
                  \cup {"Error: validation error for Alert"}

\* C18: handle_call_tool answers every call with a result.  An unknown tool
\* name is answered "Unknown tool: <name>" and resolve_alert without alert_id
\* "Alert ID is required.", and both leave the alerts, the active set, the
\* history, the cooldown tracker and the orchestrator as they are; a
\* system_health_summary call whose handler raised is answered with the text
\* "Error: <message>".
C18_ErrorsBecomeResults ==
    [][ /\ (last'.op \in ToolNames /\ last' # last) =>
                /\ last'.text = "Unknown tool: " \o last'.op
                /\ UNCHANGED <<alerts, active_alerts, alert_history, cooldown_tracker,
                               notif, orch>>
        /\ (last'.op = "resolve_alert" /\ last'.arg = None /\ last' # last) =>
                /\ last'.text = "Alert ID is required."
                /\ UNCHANGED <<alerts, active_alerts, alert_history, cooldown_tracker,
                               notif, orch>>
        /\ \A t \in 1..Len(tasks) :
                (tasks[t].kind = "summary" /\ tasks[t].pc # "done" /\ tasks'[t].pc = "done") =>
                    /\ last'.op = "system_health_summary"
                    /\ last'.summary # None \/ last'.text \in ErrorTexts
      ]_vars

\* while monitoring runs, a system_health_summary call whose database monitor
\* raised has been answered with the error text
C18_Witness ==
    /\ is_monitoring
    /\ last.op = "system_health_summary"
    /\ last.summary = None
    /\ last.text = "Error: database monitor failed"


\* C19: every alert ever created, and so every alert get_active_alerts and
\* get_alert_history return, has is_resolved true exactly when its
\* resolved_at is set.
C19_ResolvedIffStamped ==
    /\ \A a \in AlertIds : alerts[a].is_resolved <=> alerts[a].resolved_at # None
    /\ LET act == get_active_alerts(alerts, active_alerts)
           hist == get_alert_history(alerts, alert_history, Len(alert_history))
       IN  /\ \A i \in 1..Len(act) : act[i].is_resolved <=> act[i].resolved_at # None
           /\ \A i \in 1..Len(hist) : hist[i].is_resolved <=> hist[i].resolved_at # None

\* the history holds a resolved alert with its resolution time beside an
\* alert that is neither resolved nor stamped
C19_Witness ==
    /\ \E i \in 1..Len(alert_history) :
            alerts[alert_history[i]].is_resolved /\ alerts[alert_history[i]].resolved_at # None
    /\ \E i \in 1..Len(alert_history) :
            ~alerts[alert_history[i]].is_resolved /\ alerts[alert_history[i]].resolved_at = None
    /\ last.op = "resolve_alert"

\* C20: no alert of the active set is resolved; an alert held in the history
\* is in the active set exactly when it is not resolved; every entry of the
\* active set is stored under the id of its alert, and under no id twice.
C20_ActiveIffUnresolved ==
    /\ \A i \in 1..Len(active_alerts) :
            /\ active_alerts[i] \in AlertIds
            /\ ~alerts[active_alerts[i]].is_resolved
            /\ alerts[active_alerts[i]].id = active_alerts[i]
            /\ \A j \in 1..Len(active_alerts) : active_alerts[j] = active_alerts[i] => j = i
    /\ \A i \in 1..Len(alert_history) :
            InSeq(alert_history[i], active_alerts) <=> ~alerts[alert_history[i]].is_resolved

\* of two alerts in the history, the resolved one has left the active set
\* and the other is still in it
C20_Witness ==
    /\ Len(alert_history) = 2
    /\ alerts[alert_history[1]].is_resolved
    /\ ~InSeq(alert_history[1], active_alerts)
    /\ ~alerts[alert_history[2]].is_resolved
    /\ active_alerts = <<alert_history[2]>>


\* the entry get_alert_history returns for alert id after the step
HistoryEntry(id) ==
    LET h == get_alert_history(alerts', alert_history', Len(alert_history')) IN
    h[CHOOSE i \in 1..Len(h) : h[i].id = id]

\* C21 as claimed: after resolve_alert(id) of an active alert that the
\* history holds, the entry get_alert_history returns for it still shows it
\* unresolved, with no resolved_at.
C21_HistoryIsSnapshot ==
    [][\A id \in AlertIds :
          (ResolveStep(id) /\ InSeq(id, active_alerts) /\ InSeq(id, alert_history)) =>
              /\ ~HistoryEntry(id).is_resolved
              /\ HistoryEntry(id).resolved_at = None]_vars

\* C21: the history holds the alert objects themselves: after
\* resolve_alert(id) of an active alert that the history holds, the entry
\* get_alert_history returns for it shows it resolved, with the time of the
\* resolution as resolved_at, and is otherwise as it was created.
C21_HistoryShowsResolution ==
    [][\A id \in AlertIds :
          (ResolveStep(id) /\ InSeq(id, active_alerts) /\ InSeq(id, alert_history)) =>
              /\ HistoryEntry(id).is_resolved
              /\ HistoryEntry(id).resolved_at = Some(clock)
              /\ HistoryEntry(id) = [alerts[id] EXCEPT !.is_resolved = TRUE,
                                                       !.resolved_at = Some(clock)]]_vars

\* the tool has just resolved alert 1 at time 1, and the newest-first history
\* shows it resolved behind an alert that is still unresolved
C21_Witness ==
    /\ last.op = "resolve_alert" /\ last.arg = Some(1)
    /\ LET h == get_alert_history(alerts, alert_history, Len(alert_history)) IN
       /\ Len(h) = 2
       /\ h[2].id = 1 /\ h[2].is_resolved /\ h[2].resolved_at = Some(1)
       /\ h[1].id = 2 /\ ~h[1].is_resolved


\* the channels that have a target: a Slack webhook client, email enabled
Targets ==
    {ch \in Channels : (ch = "slack" /\ config.slack_client)
                           \/ (ch = "email" /\ config.email_enabled)}

\* the delivery of alert a on channel ch is still awaited
Awaited(a, ch) == pc = "gather" /\ cur = a /\ ch \in pending

finish(ch) ==
    IF ch = "slack" THEN \E o \in Outcomes("slack") : slack_answer(o)
    ELSE \E o \in Outcomes("email") : email_end(o)

\* C23: the channel deliveries of one alert run concurrently: whenever a
\* delivery has begun, it can complete, whatever the state of the other
\* delivery is, and the dispatch returns only when no delivery is left.
C23_ChannelsRunConcurrently ==
    /\ \A ch \in inflight : ENABLED finish(ch)
    /\ (pc = "idle" /\ cur # 0) => pending = {}


RECURSIVE IssueCount(_, _)
\* the number of issues a result map reports under the components cs: those
\* of each entry that is a mapping with has_issues true
IssueCount(res, cs) ==
    IF cs = <<>> THEN 0
    ELSE LET c == Head(cs)
             n == IF c \in DOMAIN res /\ res[c].kind = "dict"
                     /\ "has_issues" \in res[c].has /\ res[c].has_issues
                     /\ "issues" \in res[c].has
                  THEN Len(res[c].issues) ELSE 0
         IN  n + IssueCount(res, Tail(cs))

\* the step is a call of process_monitor_results returning
Returns ==
    /\ pc' = "idle"
    /\ pc = "gather" \/ Len(alerts') # Len(alerts) \/ alerts_created' # alerts_created

\* the list returned is the alerts the call created, one per issue, oldest
\* first
ReturnsCreated ==
    LET n == IssueCount(results', Components) IN
    /\ Len(alerts_created') = n
    /\ \A i \in 1..n : alerts_created'[i] = Len(alerts') - n + i

\* C24: process_monitor_results returns exactly the alerts created in that
\* call, one per issue of every known component with has_issues true, in
\* creation order, suppressed ones included, and every returned alert is in
\* the active set and in the history when the call returns.
C24_ReturnedAreActive ==
    [][ Returns =>
            /\ ReturnsCreated
            /\ \A i \in 1..Len(alerts_created') :
                  /\ InSeq(alerts_created'[i], active_alerts')
                  /\ InSeq(alerts_created'[i], alert_history')
      ]_vars

\* C24 (amended): process_monitor_results returns exactly the alerts created
\* in that call, one per issue of every known component with has_issues
\* true, in creation order, suppressed ones included; when the call returns,
\* every returned alert that has not been resolved in the meantime is in the
\* active set, and every returned alert is in the history unless the history
\* capacity of alerts has been created after it.
C24_ReturnedAreActiveUnlessResolved ==
    [][ Returns =>
            /\ ReturnsCreated
            /\ \A i \in 1..Len(alerts_created') :
                  LET a == alerts_created'[i] IN
                  /\ ~alerts'[a].is_resolved => InSeq(a, active_alerts')
                  /\ alerts'[a].is_resolved => ~InSeq(a, active_alerts')
                  /\ Len(alerts') - a < HistoryMaxLen => InSeq(a, alert_history')
      ]_vars

\* C24 witness: a call with two issues has returned both alerts; the first
\* was suppressed by the cooldown and was resolved while the second was being
\* delivered
C24_Witness ==
    /\ pc = "idle" /\ config.enabled
    /\ alerts_created = <<2, 3>>
    /\ ~notif[2].passed /\ alerts[2].is_resolved /\ ~InSeq(2, active_alerts)
    /\ notif[3].passed /\ notif[3].tried["slack"] = 1 /\ InSeq(3, active_alerts)
    /\ InSeq(2, alert_history) /\ InSeq(3, alert_history)


\* the entry of key k reports issues: k is a known component and its result
\* is a mapping that holds has_issues, true
Reports(res, k) ==
    /\ k \in DOMAIN res
    /\ \E i \in 1..Len(Components) : Components[i] = k
    /\ res[k].kind = "dict" /\ "has_issues" \in res[k].has /\ res[k].has_issues

\* the step is a call of process_monitor_results
CallStep ==
    /\ pc = "idle"
    /\ results' # results \/ alerts_created' # alerts_created \/ Len(alerts') # Len(alerts)

\* C25: no alert is created (and so none dispatched) for a component whose
\* result is not well-formed (not a mapping, or has_issues missing), whose
\* has_issues is false, or whose key is unknown; a call on a map made only
\* of such entries leaves the active set, the history and the cooldown map
\* unchanged and returns the empty list.
C25_IllFormedEntriesIgnored ==
    [][ /\ \A a \in (Len(alerts) + 1)..Len(alerts') :
              Reports(results', alerts'[a].component)
        /\ (CallStep /\ \A k \in DOMAIN results' : ~Reports(results', k)) =>
              /\ UNCHANGED <<alerts, active_alerts, alert_history, cooldown_tracker, notif>>
              /\ alerts_created' = <<>> /\ pc' = "idle"
      ]_vars

\* C25 witness: after a call that created an alert, a call on a map of four
\* entries, none of which reports (three ill-formed ones of known components
\* and issues under an unknown key), has returned the empty list and left
\* that alert as the only one
C25_Witness ==
    /\ DOMAIN results = {"api", "storage", "activity", "cache"}
    /\ \A k \in DOMAIN results : ~Reports(results, k)
    /\ pc = "idle" /\ alerts_created = <<>>
    /\ Len(alerts) = 1 /\ active_alerts = <<1>> /\ alert_history = <<1>>


\* the issue an alert was made from
IssueOf(a) == alerts[a].metadata.issue

\* field k of a structured issue, d when the issue does not hold it
Field(issue, k, d) == IF k \in issue.has THEN issue[k] ELSE d

\* the fixed title of a component's alerts
Label(c) ==
    CASE c = "database" -> "Database Performance Issue"
      [] c = "api" -> "API Issue"
      [] c = "queue" -> "Queue Issue"
      [] c = "storage" -> "Storage Issue"
      [] c = "activity" -> "Activity Issue"

DefaultSeverity(c) == IF c = "activity" THEN "info" ELSE "warning"

\* the alerts made from a structured issue
Structured == {a \in AlertIds : IssueOf(a).kind = "dict"}

\* C26: for every known component, a structured issue's severity and type
\* become the alert's severity and title, its threshold and value the
\* alert's threshold_value and actual_value; an absent severity defaults to
\* warning (info for activity), an absent type to the component's label.
C26_FieldsOfEveryComponent ==
    \A a \in Structured :
        LET c == alerts[a].component  issue == IssueOf(a) IN
        /\ alerts[a].severity = Field(issue, "severity", DefaultSeverity(c))
        /\ alerts[a].title = Field(issue, "type", Label(c))
        /\ alerts[a].threshold_value = Field(issue, "threshold", None)
        /\ alerts[a].actual_value = Field(issue, "value", None)

\* C26 (amended): for api, queue and storage the fields are taken as
\* claimed; for activity severity and type are taken likewise (default info)
\* but threshold and value are not carried over; for database the severity
\* is always warning and the title always the database label, whatever the
\* issue holds, and threshold and value are not carried over.
C26_FieldsPerComponent ==
    \A a \in Structured :
        LET c == alerts[a].component  issue == IssueOf(a) IN
        /\ alerts[a].severity =
              IF c = "database" THEN "warning"
              ELSE Field(issue, "severity", DefaultSeverity(c))
        /\ alerts[a].title =
              IF c = "database" THEN Label(c) ELSE Field(issue, "type", Label(c))
        /\ alerts[a].threshold_value =
              IF c \in {"database", "activity"} THEN None
              ELSE Field(issue, "threshold", None)
        /\ alerts[a].actual_value =
              IF c \in {"database", "activity"} THEN None
              ELSE Field(issue, "value", None)

\* C26 witness: a critical issue that carries a value has become a critical
\* storage alert with that value, and a warning database alert without it
C26_Witness ==
    \E a, b \in Structured :
        /\ IssueOf(a) = LowCompletion /\ IssueOf(b) = LowCompletion
        /\ alerts[a].component = "storage" /\ alerts[a].severity = "critical"
        /\ alerts[a].title = "low_completion_rate" /\ alerts[a].actual_value = Some(40)
        /\ alerts[b].component = "database" /\ alerts[b].severity = "warning"
        /\ alerts[b].title = "Database Performance Issue" /\ alerts[b].actual_value = None


\* C27: for every known component, an issue that is a plain string becomes
\* the alert's message itself, and severity and title take their defaults.
C27_StringIssueIsMessage ==
    \A a \in AlertIds :
        IssueOf(a).kind = "str" =>
            /\ alerts[a].message = IssueOf(a).text
            /\ alerts[a].severity = DefaultSeverity(alerts[a].component)
            /\ alerts[a].title = Label(alerts[a].component)


\* the issues of component c in a result map, each paired with c
Paired(res, c) ==
    IF Reports(res, c) /\ "issues" \in res[c].has
    THEN [i \in 1..Len(res[c].issues) |-> [component |-> c, issue |-> res[c].issues[i]]]
    ELSE <<>>

\* the issues of a result map in the fixed order: database, api, queue,
\* storage, activity, and the order of the entry's list within a component
InFixedOrder(res) ==
    Paired(res, "database") \o Paired(res, "api") \o Paired(res, "queue")
        \o Paired(res, "storage") \o Paired(res, "activity")

\* how many alerts the current (or last) call has created so far
CreatedSoFar == Len(alerts_created) + (IF pc = "gather" THEN 1 ELSE 0)

\* C28: the alerts of one call are created in the fixed component order
\* database, api, queue, storage, activity, and in the order of the issue
\* list within a component, whatever the result map's own order of keys; the
\* history and the returned list are in that order.
C28_FixedComponentOrder ==
    LET k == CreatedSoFar
        first == Len(alerts) - k
        want == InFixedOrder(results)
    IN  /\ k <= Len(want)
        /\ \A i \in 1..k :
              /\ alerts[first + i].component = want[i].component
              /\ IssueOf(first + i) = want[i].issue
              /\ alert_history[Len(alert_history) - k + i] = first + i
        /\ \A i \in 1..Len(alerts_created) : alerts_created[i] = first + i

\* C28 witness: a call on a map of activity, queue (two issues) and database
\* has returned four alerts, database first, then queue's two in their
\* order, then activity's
C28_Witness ==
    /\ pc = "idle" /\ DOMAIN results = {"activity", "queue", "database"}
    /\ alerts_created = <<1, 2, 3, 4>> /\ alert_history = <<1, 2, 3, 4>>
    /\ alerts[1].component = "database"
    /\ alerts[2].component = "queue" /\ alerts[2].title = "stuck_repairs"
    /\ alerts[3].component = "queue" /\ alerts[3].title = "low_completion_rate"
    /\ alerts[4].component = "activity"


\* the loop task t ends in this step
LoopEnds(t) == tasks[t].kind = "loop" /\ tasks[t].pc # "done" /\ tasks'[t].pc = "done"

\* C29: stop_monitoring may cut short the sleep between ticks, but a tick
\* that is executing probes or aggregation when stop is called is not
\* interrupted: it completes before the loop ends, so that a loop task never
\* ends from inside a tick.
C29_TickCompletes ==
    [][ \A t \in 1..Len(tasks) : LoopEnds(t) => tasks[t].pc \in {"new", "sleep"} ]_vars

\* C29 (amended): stop_monitoring interrupts the loop at the suspension
\* point it is at, which may be the sleep between ticks but also, inside a
\* tick, the await of a monitor's check or of an alert's deliveries; the
\* tick is abandoned there: the task's next step is its end, and it creates
\* no further alert and attempts no further delivery.  A loop task that was
\* not cancelled ends only at its while-test.
C29_StopInterruptsAtAnyAwait ==
    [][ /\ (StopStep /\ is_monitoring /\ monitoring_task # None) =>
              LET t == monitoring_task[1] IN
              tasks[t].pc # "done" =>
                  /\ tasks'[t].must_cancel
                  /\ tasks'[t].stopped_at = tasks[t].pc
                  /\ tasks'[t].pc = tasks[t].pc
        /\ \A t \in 1..Len(tasks) :
              /\ (Stopped(t) /\ tasks'[t] # tasks[t]) =>
                    /\ tasks'[t].pc = "done"
                    /\ UNCHANGED <<alerts, active_alerts, alert_history,
                                   cooldown_tracker, notif>>
              /\ (LoopEnds(t) /\ ~tasks[t].must_cancel) => tasks[t].pc \in {"new", "sleep"}
      ]_vars

\* C29 witness: stop_monitoring was called while the tick of the loop awaited
\* the Slack delivery of its alert; the loop task is cancelled at that await
\* and the delivery has not been attempted
C29_Witness ==
    /\ ~is_monitoring /\ monitoring_task = None
    /\ config.slack_client
    /\ \E t \in 1..Len(tasks) :
          /\ Stopped(t) /\ tasks[t].stopped_at = "gather" /\ tasks[t].pc = "gather"
    /\ Len(alerts) = 1 /\ notif[1].passed
    /\ \A ch \in Channels : notif[1].tried[ch] = 0


\* the monitors whose check the tick of task t has started: those that have
\* answered and the one awaited
Started(t) ==
    {tasks[t].probes[i] : i \in 1..Len(tasks[t].probes)}
        \cup (IF tasks[t].waiting = "" THEN {} ELSE {tasks[t].waiting})

\* C30: within a tick the checks of all selected and enabled monitors are
\* issued together, none waiting for another to finish, and all have
\* answered before the results are aggregated.
C30_ProbesIssuedTogether ==
    \A t \in 1..Len(tasks) :
        LET want == ExpectedProbes(tasks[t].components) IN
        /\ (tasks[t].pc = "probe" /\ ~tasks[t].must_cancel) =>
              \A i \in 1..Len(want) : want[i] \in Started(t)
        /\ (tasks[t].pc = "gather" /\ ~tasks[t].must_cancel) => tasks[t].probes = want


RECURSIVE SumOver(_, _)
\* the sum of the values of f over the keys S
SumOver(f, S) ==
    IF S = {} THEN 0 ELSE LET k == CHOOSE x \in S : TRUE IN f[k] + SumOver(f, S \ {k})

\* the alert summary has just been read
SummaryRead == last.op = "get_alert_summary"

\* C31: get_alert_summary shows the current state: the active count is the
\* size of the active set, the severity and the component breakdown each sum
\* to it, and the most-recent-active entry is the active alert with the
\* latest creation time (none when no alert is active).
C31_SummaryShowsMostRecent ==
    SummaryRead =>
        LET s == last.summary IN
        /\ s.active_alerts_count = Len(active_alerts)
        /\ SumOver(s.severity_breakdown, DOMAIN s.severity_breakdown) = Len(active_alerts)
        /\ SumOver(s.component_breakdown, DOMAIN s.component_breakdown) = Len(active_alerts)
        /\ (active_alerts = <<>>) = (s.most_recent_alert = None)
        /\ s.most_recent_alert # None =>
              /\ InSeq(s.most_recent_alert[1].id, active_alerts)
              /\ \A i \in 1..Len(active_alerts) :
                    alerts[active_alerts[i]].created_at <= s.most_recent_alert[1].created_at


\* the alerts of key k that passed the gate
Fired(k) == {a \in AlertIds : KeyOf(a) = k /\ notif[a].passed}

\* C32: with a tick of the background loop and an on-demand call interleaved
\* at their suspension points, two alerts of one key created inside one
\* cooldown window are never both dispatched, and no update is lost: every
\* alert created is in the active set and in the history once, in the order
\* of creation, and the cooldown map holds for each key the time of its last
\* allowed fire.
C32_OneMutationInFlight ==
    /\ \A a, b \in AlertIds :
          (a # b /\ KeyOf(a) = KeyOf(b) /\ notif[a].passed /\ notif[b].passed)
          => \/ notif[b].at >= notif[a].at + config.cooldown_minutes
             \/ notif[a].at >= notif[b].at + config.cooldown_minutes
    /\ active_alerts = [i \in 1..Len(alerts) |-> i]
    /\ alert_history = [i \in 1..Len(alerts) |-> i]
    /\ DOMAIN cooldown_tracker = {KeyOf(a) : a \in {b \in AlertIds : notif[b].passed}}
    /\ \A k \in DOMAIN cooldown_tracker :
          /\ \E a \in Fired(k) : cooldown_tracker[k] = notif[a].at
          /\ \A a \in Fired(k) : notif[a].at <= cooldown_tracker[k]

\* C32 witness: while the tick of the loop awaits the Slack delivery of its
\* queue alert, a summary call has created an alert of the same key at the
\* same time; it is in the registry and was not dispatched
C32_Witness ==
    /\ Len(alerts) = 2 /\ KeyOf(1) = KeyOf(2) /\ notif[1].at = notif[2].at
    /\ notif[1].passed /\ ~notif[2].passed
    /\ \E t \in 1..Len(tasks) :
          /\ tasks[t].kind = "loop" /\ tasks[t].pc = "gather"
          /\ tasks[t].cur = 1 /\ tasks[t].pending = {"slack"}
    /\ last.op = "system_health_summary"
    /\ notif[2].tried["slack"] = 0


\* C33: the time of a fire is recorded when the gate passes, before any
\* delivery is attempted and whatever the deliveries do: an alert that passed
\* has its key in the cooldown map from the moment it exists, and a later
\* alert of the key inside the window is suppressed also when the alert that
\* passed was delivered to nobody.
C33_RecordedBeforeDelivery ==
    /\ \A a \in AlertIds :
          notif[a].passed =>
              /\ KeyOf(a) \in DOMAIN cooldown_tracker
              /\ cooldown_tracker[KeyOf(a)] >= notif[a].at
    /\ \A a, b \in AlertIds :
          (/\ a < b /\ KeyOf(a) = KeyOf(b) /\ notif[a].passed
           /\ notif[b].at < notif[a].at + config.cooldown_minutes)
          => /\ ~notif[b].passed
             /\ \A ch \in Channels : notif[b].tried[ch] = 0

\* C33 witness: every configured channel was tried for an alert that passed
\* and every delivery failed; the next alert of the key, inside the window,
\* was suppressed: nobody has been notified of the key
C33_Witness ==
    \E a, b \in AlertIds :
        /\ a < b /\ KeyOf(a) = KeyOf(b) /\ pc = "idle"
        /\ Targets = Channels
        /\ notif[a].passed /\ notif[a].got = {}
        /\ \A ch \in Channels : notif[a].tried[ch] = 1
        /\ notif[b].at < notif[a].at + config.cooldown_minutes
        /\ ~notif[b].passed /\ notif[b].got = {}


\* the loop task t begins a tick in this step
BeginsTick(t) ==
    /\ tasks[t].kind = "loop" /\ tasks[t].pc \in {"new", "sleep"}
    /\ tasks'[t].pc \in {"probe", "gather"}

SummaryAnswered ==
    /\ last'.op = "system_health_summary" /\ last' # last
    /\ last'.summary # None

\* the summary tasks that are inside process_monitor_results
Aggregating == {t \in 1..Len(tasks) : tasks[t].kind = "summary" /\ tasks[t].pc = "gather"}

\* C35: the active_alerts_count of system_health_summary is read before the
\* call's own results are processed: it is the number of active alerts at
\* the start of the aggregation and does not count the alerts the call
\* creates, so it can differ from the size of the active set at the return.
C35_CountReadBeforeAggregation ==
    [][ /\ \A t \in 1..Len(tasks) :
              (tasks[t].kind = "summary" /\ tasks[t].pc = "probe" /\ tasks'[t].pc = "gather")
              => tasks'[t].seen = Len(active_alerts)
        /\ SummaryAnswered =>
              LET n == last'.summary[1].active_alerts_count IN
              IF Aggregating # {}
              THEN \A t \in Aggregating : n = tasks[t].seen
              ELSE /\ n = Len(active_alerts)
                   /\ Len(active_alerts') = n + IssueCount(last'.results, Components)
      ]_vars

\* C35 witness: a summary call has answered active_alerts_count 0 and left
\* one active alert, the one it created
C35_Witness ==
    /\ last.op = "system_health_summary" /\ last.summary # None
    /\ last.summary[1].active_alerts_count = 0
    /\ IssueCount(last.results, Components) = 1
    /\ Len(alerts) = 1 /\ active_alerts = <<1>>
    /\ \A t \in 1..Len(tasks) : tasks[t].kind = "loop" => tasks[t].calls = 0


\* the step is a resolve_alert call for an id that is active
ResolveHit == \E id \in 1..Len(alerts) : ResolveStep(id) /\ InSeq(id, active_alerts)

\* C36: the size of the active set is the number of alerts created minus
\* the number of resolve calls that hit an active id: every alert created
\* adds one, whether or not its key has an active alert or is in cooldown,
\* and only a resolve call for an active id takes one away; the ids of the
\* alerts created are pairwise distinct.
C36_ActiveCount ==
    [][ /\ Len(active_alerts') - Len(active_alerts)
              = (Len(alerts') - Len(alerts)) - (IF ResolveHit THEN 1 ELSE 0)
        /\ Len(active_alerts') =
              Len(alerts') - Cardinality({a \in 1..Len(alerts') : alerts'[a].is_resolved})
        /\ \A a, b \in 1..Len(alerts') : alerts'[a].id = alerts'[b].id => a = b
      ]_vars

\* C36 witness: two alerts of one key are active, the second created while
\* the key was in cooldown and so not notified
C36_Witness ==
    /\ config.enabled /\ Len(alerts) = 2 /\ active_alerts = <<1, 2>>
    /\ KeyOf(1) = KeyOf(2)
    /\ notif[1].passed /\ ~notif[2].passed
    /\ notif[2].at < notif[1].at + config.cooldown_minutes


\* a result that carries an error and no has_issues: the probe failed
FailedResult(r) == r.kind = "dict" /\ "error" \in r.has /\ "has_issues" \notin r.has

\* the alerts created in this step
NewAlerts == (Len(alerts) + 1)..Len(alerts')

C38_ResolveKeepsCooldown ==
    [][ /\ (\E id \in 1..Len(alerts) : ResolveStep(id)) => cooldown_tracker' = cooldown_tracker
        /\ \A a \in 1..Len(alerts) : \A b \in NewAlerts :
              (/\ KeyOf(a)' = KeyOf(b)' /\ notif'[a].passed
               /\ notif'[b].at < notif'[a].at + config.cooldown_minutes)
              => /\ ~notif'[b].passed
                 /\ InSeq(b, active_alerts') /\ InSeq(b, alert_history')
                 /\ \A ch \in Channels : notif'[b].tried[ch] = 0
      ]_vars

\* C38 witness: the alert that fired was resolved, and the next alert of its
\* key, created inside the window after the resolution, is active and was
\* not notified
C38_Witness ==
    /\ config.enabled /\ config.slack_client /\ Len(alerts) = 2 /\ pc = "idle"
    /\ KeyOf(1) = KeyOf(2)
    /\ notif[1].passed /\ alerts[1].is_resolved
    /\ alerts[1].resolved_at # None /\ alerts[1].resolved_at[1] <= alerts[2].created_at
    /\ alerts[2].created_at < notif[1].at + config.cooldown_minutes
    /\ active_alerts = <<2>> /\ ~notif[2].passed /\ notif[2].tried["slack"] = 0


\* the alerts created before b with b's component and title that passed the
\* gate less than one cooldown before b was created
SamePairFires(b) ==
    {a \in 1..(b - 1) : /\ alerts[a].component = alerts[b].component
                        /\ alerts[a].title = alerts[b].title
                        /\ notif[a].passed
                        /\ notif[b].at < notif[a].at + config.cooldown_minutes}

\* C39: cooldowns of distinct (component, title) pairs are independent, for
\* all strings create_alert accepts: with alerting enabled an alert is
\* refused by the gate only when an alert of its own component and its own
\* title fired inside the window; a fire of another pair never suppresses it.
C39_DistinctPairsIndependent ==
    \A b \in 1..Len(alerts) :
        (config.enabled /\ ~notif[b].passed) => SamePairFires(b) # {}


\* the loop task f is inside a tick: it awaits a monitor or the channel tasks
InTick(f) == f.kind = "loop" /\ f.pc \in {"probe", "gather"}

\* s is an initial segment of q
IsPrefix(s, q) == Len(s) <= Len(q) /\ SubSeq(q, 1, Len(s)) = s

\* C40: the loop runs its first tick as soon as it runs (no sleep before
\* it), goes to asyncio.sleep(interval) after every tick, also after one
\* that raised, and begins a tick only at its first run or at the end of a
\* sleep: two consecutive ticks are separated by one sleep of the interval
\* the loop was started with.
C40_SleepAfterEveryTick ==
    [][ \A t \in 1..Len(tasks) :
           LET f == tasks[t]
               g == tasks'[t]
           IN  /\ (f.kind = "loop" /\ f.pc = "new" /\ g.pc \notin {"new", "done"})
                      => InTick(g) /\ g.probes = <<>> /\ g.interval = f.interval
               /\ (InTick(f) /\ ~InTick(g))
                      => \/ g.pc = "done" /\ f.must_cancel
                         \/ g.kind = "loop" /\ g.pc = "sleep" /\ g.interval = f.interval
               /\ (InTick(f) /\ g.raised /\ ~f.raised /\ ~f.must_cancel)
                      => g.pc = "sleep" /\ g.interval = f.interval
               /\ (InTick(f) /\ InTick(g) /\ ~g.must_cancel)
                      => IsPrefix(f.probes, g.probes) /\ g.interval = f.interval
               /\ (f.kind = "loop" /\ f.pc = "sleep" /\ g.pc # "sleep")
                      => \/ g.pc = "done" /\ f.must_cancel
                         \/ InTick(g) /\ g.probes = <<>> /\ g.interval = f.interval
      ]_vars

\* C40 witness: the loop that monitoring runs sleeps its interval after a
\* tick that awaited a monitor and raised
C40_Witness ==
    /\ is_monitoring /\ monitoring_task # None
    /\ LET f == tasks[monitoring_task[1]] IN
       /\ f.kind = "loop" /\ f.pc = "sleep" /\ f.raised /\ ~f.must_cancel
       /\ f.interval = 60 /\ f.probes # <<>>

====
